---- MODULE Spec2Model ----
(***************************************************************************)
(* State-machine model of hsd-bweb-log: the Logger (request interceptor    *)
(* and reporter registry, lib/logger.js), the reporters it drives and the  *)
(* Plugin's error forwarding.  One action per synchronous segment of the   *)
(* JavaScript code: an async function runs atomically up to its next       *)
(* await, so every await is a point where other segments can interleave.   *)
(***************************************************************************)
EXTENDS Integers, FiniteSets, Sequences, TLC

\* ------------------------------------------------------------------ bounds
\* Number of wrapped-handler invocations (requests) the host issues.
MaxReq == 2
\* Number of registry calls (register / enableReporter / disableReporter /
\* PUT /bweb-log), the Plugin's own register calls included.
MaxOps == 3
\* Number of requests served while registry calls are in progress.
MaxLiveReq == 1
\* Number of GET / PUT /bweb-log/:id requests.
MaxOptReq == 2
\* Number of res.json calls one handler makes.
MaxSends == 2

\* Management requests and Plugin.unregister calls on the two loggers of
\* one Plugin.
MaxPairReq == 1

\* Records handed to one rotating store.
MaxWrites == 4
\* Largest record, in size units; the largest maxFileSize as well.
MaxRecordSize == 3

\* ------------------------------------------------------- program constants
\* static id of the three reporter classes.
ReporterIds == {"console", "file", "name"}
\* Reporters that own a RotatingLogFile store (this.store).
StoreBacked == {"file", "name"}
\* The two loggers the Plugin creates (nodeLogger, walletLogger).
LoggerKinds == {"node", "wallet"}

Reqs == 1..MaxReq
Ops == 1..MaxOps
NoInst == 0

VARIABLES
  kind,               \* which of the Plugin's loggers this Logger is
  hasOnError,         \* whether the host server has an onError hook
  availableReporters, \* Logger.availableReporters (its key set)
  descriptors,        \* Logger.availableReporters: id -> the stored {Reporter,
                      \* options}, named by the register call that stored it
  enabledReporters,   \* Logger.enabledReporters: id -> instance (0 = absent)
  instances,          \* every reporter instance constructed so far
  ops,                \* registry calls: kind, id, position, instance
  nOps,               \* registry calls issued so far
  responses,          \* each PUT /bweb-log request: the `enabled` of its body
                      \* and what it was answered with
  reqs,               \* per request: position of W / onError, meta, response
  running,            \* reporter callbacks started and not yet settled
  clock,              \* process.hrtime.bigint()
  loggerErrors,       \* 'error' events emitted on the Logger (per reporter id)
  pluginErrors,       \* 'error' events re-emitted on the Plugin
  expected,           \* history: successful enable/disable calls applied in order
  failed,             \* history: reporter callbacks that rejected
  memory,             \* Plugin.memory (the node's memory option)
  options,            \* per instance: its FileReporterOptions
  answer,             \* each GET / PUT /bweb-log/:id request: where its
                      \* handler stands, and its answer
  nOpt,               \* GET / PUT /bweb-log/:id requests made so far
  records,            \* history: store writes that completed, per request,
                      \* instance and phase
  finishLog,          \* history: the logRequestFinished dispatch loops in the
                      \* order they ran, each with the instances it called
  nMeta,              \* FinishedMetaData objects constructed so far
  unit                \* a function of the program applied on its own: the
                      \* input, and the output once it has been applied

vars == <<kind, hasOnError, availableReporters, enabledReporters, instances,
          ops, nOps, reqs, running, clock, loggerErrors, pluginErrors,
          expected, failed, descriptors, responses, memory, options,
          answer, nOpt, records, finishLog, nMeta, unit>>

regVars == <<availableReporters, enabledReporters, instances, ops, nOps, expected,
            descriptors, responses>>
histVars == <<records, finishLog, nMeta>>
reqVars == <<reqs, running, clock, failed, histVars>>
errVars == <<loggerErrors, pluginErrors>>
optVars == <<options, answer, nOpt>>
envVars == <<kind, hasOnError, memory, optVars, unit>>

NoInstance == [id |-> "none", state |-> "none", listener |-> FALSE]
NoOp == [kind |-> "none", id |-> "none", pc |-> "none", inst |-> NoInst]
\* No descriptor stored for an id (availableReporters.get(id) undefined).
NoDescriptor == 0
\* A PUT /bweb-log request not made, or not answered yet: no status code,
\* no body.
NoResponse == [enabled |-> FALSE, field |-> "none", code |-> 0, reporters |-> <<>>]
\* FileReporterOptions as its constructor leaves it.
DefaultOptions == [logParams |-> TRUE, logResponse |-> FALSE]
\* No function applied on its own.
NoUnit == [fn |-> "none"]

\* ---------------------------------------------------------------- registry

\* Logger.isEnabled
isEnabled(id) == enabledReporters[id] # NoInst

\* Logger.hasReporter
hasReporter(id) == id \in availableReporters

\* Logger.listReportersStatuses: every registered id -> isEnabled(id)
listReportersStatuses == [id \in availableReporters |-> isEnabled(id)]

\* The stores that are open: store.open() has completed and store.close()
\* has not (FileReporter / NameReporter open and close only delegate).
OpenStores ==
  {i \in Ops : instances[i].id \in StoreBacked
                /\ instances[i].state \in {"open", "closing"}}

\* The instances a fan-out iterates: this.enabledReporters.values()
EnabledInstances == {enabledReporters[id] : id \in {x \in ReporterIds : isEnabled(x)}}

\* Outcomes of store.open() / store.close() / store.writeJSONLine(): the
\* console reporter has no store and its open/close/log bodies are empty.
StoreOutcomes(id) == IF id \in StoreBacked THEN {"ok", "fail"} ELSE {"ok"}

\* An enableReporter without its assertion.
EnableAssertsNothing(id, avail) == TRUE

\* enableReporter: assert(this.availableReporters.has(id)), against the
\* available set avail it reads.
EnableAsserts(id, avail) == id \in avail

\* enableReporter up to its await: assert(availableReporters.has(id)),
\* Reporter.init(...), instance.open() called.  avail is the available set
\* the assertion reads (register has already added its id when it calls).
EnableBegin(k, id, avail, what) ==
  IF ~EnableAsserts(id, avail)
  THEN /\ ops' = [ops EXCEPT ![k] =
                    [kind |-> what, id |-> id, pc |-> "threw", inst |-> NoInst]]
       /\ UNCHANGED instances
  ELSE /\ ops' = [ops EXCEPT ![k] =
                    [kind |-> what, id |-> id, pc |-> "opening", inst |-> k]]
       /\ instances' = [instances EXCEPT ![k] =
                    [id |-> id, state |-> "opening", listener |-> FALSE]]

\* A direct call of Logger.enableReporter(id).
CallEnable(id) ==
  /\ nOps < MaxOps
  /\ nOps' = nOps + 1
  /\ EnableBegin(nOps + 1, id, availableReporters, "enable")
  /\ UNCHANGED <<availableReporters, enabledReporters, expected, descriptors, responses>>
  /\ UNCHANGED <<reqVars, errVars, envVars>>

\* A register without its assertion on the id.
RegisterAssertsNothing(id) == TRUE

\* register: assert(!this.availableReporters.has(Reporter.id),
\* 'Reporter already exists.')
RegisterAsserts(id) == ~hasReporter(id)

\* Logger.register(Reporter, options, enable): the options object of the
\* k-th call is named k.
CallRegister(id, enable) ==
  /\ nOps < MaxOps
  /\ nOps' = nOps + 1
  /\ IF ~RegisterAsserts(id)
     THEN /\ ops' = [ops EXCEPT ![nOps + 1] =
                    [kind |-> "register", id |-> id, pc |-> "threw", inst |-> NoInst]]
          /\ UNCHANGED <<availableReporters, descriptors, instances>>
     ELSE /\ availableReporters' = availableReporters \cup {id}
          /\ descriptors' = [descriptors EXCEPT ![id] = nOps + 1]
          /\ IF enable
             THEN EnableBegin(nOps + 1, id, availableReporters \cup {id}, "register")
             ELSE /\ ops' = [ops EXCEPT ![nOps + 1] =
                    [kind |-> "register", id |-> id, pc |-> "done", inst |-> NoInst]]
                  /\ UNCHANGED instances
  /\ UNCHANGED <<enabledReporters, expected, responses>>
  /\ UNCHANGED <<reqVars, errVars, envVars>>

\* Where call k stands once the enableReporter / disableReporter it runs has
\* settled: a PUT /bweb-log handler and an unregister await that call and go
\* on in a segment of their own; the other calls end with it.
Settled(k, outcome) ==
  IF ops[k].kind \in {"put", "unregister"}
  THEN IF outcome = "ok" THEN "resolved" ELSE "rejected"
  ELSE IF outcome = "ok" THEN "done" ELSE "threw"

\* The PUT /bweb-log handler after its await (the call it awaited belongs
\* to request k): res.json(200, { reporters }) with the status map read
\* then, or the awaited call's rejection, which the handler does not catch
\* and the host answers as an error without statusCode.
PutAnswer(k) ==
  IF ops[k].pc = "resolved"
  THEN [responses EXCEPT ![k].code = 200, ![k].reporters = listReportersStatuses]
  ELSE [responses EXCEPT ![k].code = 500]

\* An enableReporter that stores the instance whether or not open()
\* succeeded.
EnabledAfterOpenAlways(k, outcome) == [enabledReporters EXCEPT ![ops[k].id] = k]

\* this.enabledReporters.set(id, instance), reached only when
\* `await instance.open()` did not throw.
EnabledAfterOpen(k, outcome) ==
  IF outcome = "ok" THEN [enabledReporters EXCEPT ![ops[k].id] = k]
  ELSE enabledReporters

\* enableReporter after `await instance.open()`: on success
\* instance.on('error', ...) and enabledReporters.set(id, instance); a
\* rejected open() leaves the call rejected before either.
OpenDone(k, outcome) ==
  /\ ops[k].pc = "opening"
  /\ outcome \in StoreOutcomes(ops[k].id)
  /\ enabledReporters' = EnabledAfterOpen(k, outcome)
  /\ IF outcome = "ok"
     THEN /\ instances' = [instances EXCEPT ![k].state = "open", ![k].listener = TRUE]
          /\ expected' = expected \cup {ops[k].id}
     ELSE /\ instances' = [instances EXCEPT ![k].state = "failed"]
          /\ UNCHANGED expected
  /\ ops' = [ops EXCEPT ![k].pc = Settled(k, outcome)]
  /\ UNCHANGED <<availableReporters, descriptors, nOps, responses>>
  /\ UNCHANGED <<reqVars, errVars, envVars>>

\* Logger.disableReporter up to its await: both assertions,
\* instance.removeAllListeners('error'), instance.close() called.
DisableBegin(k, id, what) ==
  IF ~hasReporter(id) \/ ~isEnabled(id)
  THEN /\ ops' = [ops EXCEPT ![k] =
                 [kind |-> what, id |-> id, pc |-> "threw", inst |-> NoInst]]
       /\ UNCHANGED instances
  ELSE LET i == enabledReporters[id] IN
       /\ ops' = [ops EXCEPT ![k] =
                 [kind |-> what, id |-> id, pc |-> "closing", inst |-> i]]
       /\ instances' = [instances EXCEPT ![i].listener = FALSE,
                                         ![i].state = "closing"]

\* A direct call of Logger.disableReporter(id).
CallDisable(id) ==
  /\ nOps < MaxOps
  /\ nOps' = nOps + 1
  /\ DisableBegin(nOps + 1, id, "disable")
  /\ UNCHANGED <<availableReporters, enabledReporters, expected, descriptors, responses>>
  /\ UNCHANGED <<reqVars, errVars, envVars>>

\* The earlier disableReporter (it closed the instance and kept the entry).
EnabledAfterDisableKept(id) == enabledReporters

\* this.enabledReporters.delete(id)
EnabledAfterDisable(id) == [enabledReporters EXCEPT ![id] = NoInst]

\* An unregister whose repoterCache.delete(Reporter) succeeds and which goes
\* on to availableReporters.delete(id).
UnregisterTailDeletes(id) ==
  [threw |-> FALSE, available |-> availableReporters \ {id}]

\* unregister after the reporter is disabled:
\* this.repoterCache.delete(Reporter); this.availableReporters.delete(id).
\* The Logger has no repoterCache (the constructor assigns no such field
\* and nothing else does): reading `delete` of undefined throws a TypeError
\* before the second statement.
UnregisterTail(id) == [threw |-> TRUE, available |-> availableReporters]

\* The descriptors of the reporters left in avail.
DescriptorsOf(avail) ==
  [id \in ReporterIds |-> IF id \in avail THEN descriptors[id] ELSE NoDescriptor]

\* disableReporter after `await instance.close()`:
\* this.enabledReporters.delete(id), which a rejected close() never reaches.
CloseDone(k, outcome) ==
  /\ ops[k].pc = "closing"
  /\ outcome \in StoreOutcomes(ops[k].id)
  /\ IF outcome = "ok"
     THEN /\ instances' = [instances EXCEPT ![ops[k].inst].state = "closed"]
          /\ enabledReporters' = EnabledAfterDisable(ops[k].id)
          /\ expected' = expected \ {ops[k].id}
     ELSE UNCHANGED <<instances, enabledReporters, expected>>
  /\ ops' = [ops EXCEPT ![k].pc = Settled(k, outcome)]
  /\ UNCHANGED <<availableReporters, descriptors, nOps, responses>>
  /\ UNCHANGED <<reqVars, errVars, envVars>>

\* The caller of enableReporter / disableReporter after its own await: the
\* PUT /bweb-log handler reads listReportersStatuses() and answers; the
\* unregister goes on to repoterCache.delete and availableReporters.delete.
\* A rejection of the awaited call rejects the caller there.
Resumes(k) ==
  /\ ops[k].pc \in {"resolved", "rejected"}
  /\ LET tail == UnregisterTail(ops[k].id)
         unregisters == ops[k].kind = "unregister" /\ ops[k].pc = "resolved"
     IN
     /\ ops' = [ops EXCEPT ![k].pc =
                 IF ops[k].pc = "rejected" \/ (unregisters /\ tail.threw)
                 THEN "threw" ELSE "done"]
     /\ availableReporters' = IF unregisters THEN tail.available
                              ELSE availableReporters
     /\ descriptors' = IF unregisters THEN DescriptorsOf(tail.available)
                       ELSE descriptors
  /\ responses' = IF ops[k].kind = "put" THEN PutAnswer(k) ELSE responses
  /\ UNCHANGED <<enabledReporters, instances, expected, nOps>>
  /\ UNCHANGED <<reqVars, errVars, envVars>>

\* Logger.unregister(Reporter) called, in one loop, for the classes
\* registered under the ids rs (distinct), each up to its await or, when
\* the reporter is not enabled, to its end: the assertions, then either
\* disableReporter up to `await instance.close()` (its own assertions hold,
\* instance.removeAllListeners('error'), instance.close() called) or the
\* tail at once.
Unregisters(rs) ==
  LET n == Len(rs)
      ids == {rs[j] : j \in 1..n}
      closes(id) == hasReporter(id) /\ isEnabled(id)
      tails == {id \in ids : hasReporter(id) /\ ~isEnabled(id)}
      avail == {id \in availableReporters :
                  id \in tails => id \in UnregisterTail(id).available}
  IN
  /\ nOps + n <= MaxOps
  /\ nOps' = nOps + n
  /\ ops' = [k \in Ops |->
       IF k <= nOps \/ k > nOps + n THEN ops[k]
       ELSE LET id == rs[k - nOps] IN
            [kind |-> "unregister", id |-> id,
             pc |-> IF ~hasReporter(id) THEN "threw"
                    ELSE IF isEnabled(id) THEN "closing"
                    ELSE IF UnregisterTail(id).threw THEN "threw" ELSE "done",
             inst |-> IF closes(id) THEN enabledReporters[id] ELSE NoInst]]
  /\ instances' = [i \in Ops |->
       IF \E id \in ids : closes(id) /\ enabledReporters[id] = i
       THEN [instances[i] EXCEPT !.listener = FALSE, !.state = "closing"]
       ELSE instances[i]]
  /\ availableReporters' = avail
  /\ descriptors' = DescriptorsOf(avail)
  /\ UNCHANGED <<enabledReporters, expected, responses>>
  /\ UNCHANGED <<reqVars, errVars, envVars>>

\* enforce(value, msg): an error with statusCode 400 unless value holds
\* (0: nothing thrown).
enforce(value) == IF value THEN 0 ELSE 400

\* The PUT /bweb-log handler up to its first await, or to its response when
\* it awaits nothing: body { id, enabled: field }, where field is a
\* boolean, absent, or a value that is not a boolean.  status is
\* valid.bool('enabled'): null for a body without the field, and null is
\* falsy in `!status` and `status`.  valid.bool throws for a value that is
\* not a boolean, before anything is looked up; the host answers that
\* error, which has no statusCode, as it does a rejection.
CallPutBody(id, field) ==
  /\ nOps < MaxOps
  /\ nOps' = nOps + 1
  /\ LET k == nOps + 1
         status == field = "true"
     IN
     IF field = "junk"
     THEN /\ ops' = [ops EXCEPT ![k] =
                    [kind |-> "put", id |-> id, pc |-> "threw", inst |-> NoInst]]
          /\ responses' = [responses EXCEPT ![k] =
                    [enabled |-> status, field |-> field, code |-> 500,
                     reporters |-> <<>>]]
          /\ UNCHANGED instances
     ELSE IF enforce(hasReporter(id)) # 0
     THEN /\ ops' = [ops EXCEPT ![k] =
                    [kind |-> "put", id |-> id, pc |-> "threw", inst |-> NoInst]]
          /\ responses' = [responses EXCEPT ![k] =
                    [enabled |-> status, field |-> field,
                     code |-> enforce(hasReporter(id)), reporters |-> <<>>]]
          /\ UNCHANGED instances
     ELSE IF ~status /\ isEnabled(id)
     THEN /\ DisableBegin(k, id, "put")
          /\ responses' = [responses EXCEPT ![k].enabled = status,
                                            ![k].field = field]
     ELSE IF status /\ ~isEnabled(id)
     THEN /\ EnableBegin(k, id, availableReporters, "put")
          /\ responses' = [responses EXCEPT ![k].enabled = status,
                                            ![k].field = field]
     ELSE /\ ops' = [ops EXCEPT ![k] =
                    [kind |-> "put", id |-> id, pc |-> "done", inst |-> NoInst]]
          /\ responses' = [responses EXCEPT ![k] =
                    [enabled |-> status, field |-> field, code |-> 200,
                     reporters |-> listReportersStatuses]]
          /\ UNCHANGED instances
  /\ UNCHANGED <<availableReporters, descriptors, enabledReporters, expected>>
  /\ UNCHANGED <<reqVars, errVars, envVars>>

\* -------------------------------------------------------- reporter options

\* What a request carries under one key: nothing, a boolean, or a value that
\* is not a boolean.
FieldValues == {"absent", "true", "false", "junk"}

\* The body of a PUT /bweb-log/:id request: params, response, and whether it
\* carries a field the reporter does not know.
Bodies == [params : FieldValues, response : FieldValues, extra : BOOLEAN]
NoBody == [params |-> "absent", response |-> "absent", extra |-> FALSE]
\* A GET / PUT /bweb-log/:id request not made yet.
NoAnswer == [verb |-> "none", id |-> "none", body |-> NoBody, code |-> -1,
             threw |-> FALSE, options |-> {}, pc |-> "none", inst |-> NoInst]

\* Validator.bool(key, fallback) throws a ValidationError.
boolThrows(v) == v = "junk"

\* Validator.bool(key, fallback): the fallback for an absent key, the value
\* of a boolean.
bool(v, fallback) == IF v = "absent" THEN fallback ELSE v = "true"

\* FileReporterOptions.toJSON: the object as its set of key/value pairs.
toJSON(o) == {<<"params", o.logParams>>, <<"response", o.logResponse>>}

\* FileReporterOptions.fromReq and fromJSON: both fields are read and
\* validated, then both are assigned; no other field of the request is read.
fromReq(o, body) ==
  IF boolThrows(body.params) \/ boolThrows(body.response)
  THEN [threw |-> TRUE, options |-> o]
  ELSE [threw |-> FALSE,
        options |-> [logParams |-> bool(body.params, o.logParams),
                     logResponse |-> bool(body.response, o.logResponse)]]

\* reporter.getOptions(): the file reporter's options.toJSON(), {} for a
\* reporter that inherits AbstractReporter.getOptions.
getOptions(i, opts) == IF instances[i].id = "file" THEN toJSON(opts[i]) ELSE {}

\* reporter.setOptions(req): the file reporter's options.fromReq(req); a
\* reporter that inherits AbstractReporter.setOptions changes nothing.
setOptions(i, body) ==
  IF instances[i].id = "file" THEN fromReq(options[i], body)
  ELSE [threw |-> FALSE, options |-> options[i]]

\* Handlers that look the reporter up without checking it first.
OptionsEnforceNothing(id) == 0

\* enforce(this.hasReporter(id)); enforce(this.isEnabled(id)): the status
\* code of the error thrown, 0 if none.
OptionsEnforce(id) ==
  IF enforce(hasReporter(id)) # 0 THEN enforce(hasReporter(id))
  ELSE enforce(isEnabled(id))

\* One GET / PUT /bweb-log/:id exchange that has ended: a handler that threw
\* has sent no body; code 0 stands for an error without a statusCode (the
\* status of the answer is then the host's choice).
Exchange(verb, id, body, code, opts) ==
  [verb |-> verb, id |-> id, body |-> body, code |-> code,
   threw |-> code # 200, options |-> opts, pc |-> "done", inst |-> NoInst]

\* An exchange whose handler is suspended at an await: pc says which one,
\* inst is the reporter the handler holds, opts what getOptions() returned
\* if it has been called.  No answer yet (code -1).
Suspended(verb, id, body, i, opts, pc) ==
  [verb |-> verb, id |-> id, body |-> body, code |-> -1,
   threw |-> FALSE, options |-> opts, pc |-> pc, inst |-> i]

\* GET /bweb-log/:id up to its await: reporter.getOptions() is called, and
\* reads the options, before res.json.  this.enabledReporters.get(id) of an
\* id that is not enabled is undefined, and calling a method on it throws a
\* TypeError.
GetOptions(id) ==
  /\ nOpt < MaxOptReq
  /\ nOpt' = nOpt + 1
  /\ LET code == OptionsEnforce(id)
         i == enabledReporters[id]
     IN
     answer' = [answer EXCEPT ![nOpt + 1] =
                 IF code # 0 THEN Exchange("GET", id, NoBody, code, {})
                 ELSE IF i = NoInst THEN Exchange("GET", id, NoBody, 0, {})
                 ELSE Suspended("GET", id, NoBody, i, getOptions(i, options), "read")]
  /\ UNCHANGED <<options, regVars, reqVars, errVars, kind, hasOnError, memory, unit>>

\* PUT /bweb-log/:id up to `await reporter.setOptions(req)`: setOptions
\* runs fromReq when it is called.  A setOptions that throws rejects the
\* handler.
PutOptions(id, body) ==
  /\ nOpt < MaxOptReq
  /\ nOpt' = nOpt + 1
  /\ LET code == OptionsEnforce(id)
         i == enabledReporters[id]
     IN
     IF code # 0 \/ i = NoInst
     THEN /\ answer' = [answer EXCEPT ![nOpt + 1] = Exchange("PUT", id, body, code, {})]
          /\ UNCHANGED options
     ELSE LET set == setOptions(i, body) IN
          /\ options' = [options EXCEPT ![i] = set.options]
          /\ answer' = [answer EXCEPT ![nOpt + 1] =
                          IF set.threw
                          THEN Exchange("PUT", id, body, 0, {})
                          ELSE Suspended("PUT", id, body, i, {}, "set")]
  /\ UNCHANGED <<regVars, reqVars, errVars, kind, hasOnError, memory, unit>>

\* PUT /bweb-log/:id after `await reporter.setOptions(req)`:
\* reporter.getOptions() is called on the reporter the handler holds and
\* reads the options as they are then.
OptionsRead(n) ==
  /\ answer[n].pc = "set"
  /\ answer' = [answer EXCEPT ![n].options = getOptions(answer[n].inst, options),
                              ![n].pc = "read"]
  /\ UNCHANGED <<options, nOpt, regVars, reqVars, errVars, kind, hasOnError,
                 memory, unit>>

\* Either handler after `await reporter.getOptions()`:
\* res.json(200, { options }) with what getOptions() returned.
OptionsAnswer(n) ==
  /\ answer[n].pc = "read"
  /\ answer' = [answer EXCEPT ![n].code = 200, ![n].pc = "done"]
  /\ UNCHANGED <<options, nOpt, regVars, reqVars, errVars, kind, hasOnError,
                 memory, unit>>

\* ------------------------------------------------- file reporter's records

\* A JSON object is the set of its <<key, value>> pairs.  A value is a
\* string or, one level down, an object whose values are strings.
Str(x) == [t |-> "str", s |-> x, o |-> {}]
Obj(o) == [t |-> "obj", s |-> "", o |-> o]

\* The keys filterObject treats as sensitive.
SensitiveKeys == {"token", "passphrase"}

\* What filterObject writes in place of a sensitive value.
Marker == "*****"

\* The value a request carries under each key.
SecretOf(k) == IF k = "token" THEN "abc123" ELSE "xyz"

\* Objects without nesting: any of token, passphrase and name.
InnerObjects ==
  SUBSET {<<"token", SecretOf("token")>>, <<"passphrase", SecretOf("passphrase")>>,
          <<"name", "v">>}

\* The same objects as values of a request (req.params, req.query).
FlatObjects == {{<<e[1], Str(e[2])>> : e \in f} : f \in InnerObjects}

\* req.body: its `name` may also be another string or a nested object.
BodyObjects ==
  FlatObjects
    \cup {f \cup {<<"name", Str("w")>>} : f \in {g \in FlatObjects : \A e \in g : e[1] # "name"}}
    \cup {f \cup {<<"name", Obj(n)>>} :
            f \in {g \in FlatObjects : \A e \in g : e[1] # "name"}, n \in InnerObjects}

\* The requests a record is written for, and meta.response.
Requests == [params : FlatObjects, query : FlatObjects, body : BodyObjects]
Responses == {"null", "body"}

\* A value that JSON.stringify leaves out (undefined).
undefined == [defined |-> FALSE, entries |-> {}]

\* filterObject as it was before: sensitive keys are left out.
filterObjectOmitting(obj, log) ==
  LET kept == {e \in obj : e[1] \notin SensitiveKeys} IN
  IF ~log \/ kept = {} THEN undefined
  ELSE [defined |-> TRUE, entries |-> kept]

\* filterObject(obj, log): undefined unless log; every entry of obj copied,
\* the value of a key named token or passphrase replaced by the marker;
\* undefined if obj has no entries.
filterObject(obj, log) ==
  IF ~log THEN undefined
  ELSE IF obj = {} THEN undefined
  ELSE [defined |-> TRUE,
        entries |-> {<<e[1], IF e[1] \in SensitiveKeys THEN Str(Marker) ELSE e[2]>> :
                       e \in obj}]

\* FinishedMetaData.responseJSON(response).body
responseJSON(response, metaResponse) ==
  IF response /\ metaResponse # "null" THEN metaResponse ELSE "undefined"

\* The object FileReporter.logRequest passes to store.writeJSONLine.
BeginRecord(req, o) ==
  [type |-> "begin",
   params |-> filterObject(req.params, o.logParams),
   query |-> filterObject(req.query, o.logParams),
   body |-> filterObject(req.body, o.logParams),
   response |-> "undefined"]

\* The object FileReporter.logRequestFinished passes to store.writeJSONLine.
FinishRecord(req, o, metaResponse) ==
  [type |-> "finish",
   params |-> filterObject(req.params, o.logParams),
   query |-> filterObject(req.query, o.logParams),
   body |-> filterObject(req.body, o.logParams),
   response |-> responseJSON(o.logResponse, metaResponse)]

\* FileReporter.logRequest for the request under consideration.
FileLogRequest ==
  /\ unit.fn = "file"
  /\ unit.written = <<>>
  /\ unit' = [unit EXCEPT !.written = <<BeginRecord(unit.req, unit.options)>>]
  /\ UNCHANGED <<regVars, reqVars, errVars, kind, hasOnError, memory, optVars>>

\* FileReporter.logRequestFinished for it.
FileLogRequestFinished ==
  /\ unit.fn = "file"
  /\ Len(unit.written) = 1
  /\ unit' = [unit EXCEPT !.written =
                 Append(@, FinishRecord(unit.req, unit.options, unit.response))]
  /\ UNCHANGED <<regVars, reqVars, errVars, kind, hasOnError, memory, optVars>>

\* --------------------------------------------------- name reporter's records

\* The name operations considered, the third segment of the path of
\* POST /wallet/:id/<type> (the other seven are handled as open is).
NameTypes == {"open", "bid", "transfer", "auction"}

\* What a request, or the response body, carries under a key that should
\* hold a string or a boolean: nothing, a value of that type, or a value of
\* another type.
Carried == {"absent", "typed", "mistyped"}

\* The requests considered: the method, the number of path segments, the
\* first segment, the last segment (`type`: a name operation, or send as a
\* route that is none), name, broadcast, whether the
\* extra fields of a bid or a transfer are usable, and `hash` of the
\* response body.
NameRequests ==
  [method : {"POST", "GET"}, segments : {2, 3}, first : {"wallet", "node"},
   type : NameTypes \cup {"send"}, name : Carried, broadcast : Carried, extra : BOOLEAN,
   hash : Carried]

\* try { name = valid.str('name'); broadcast = valid.bool('broadcast', true) }
\* catch (e) { return null }: Validator.str and Validator.bool throw for a
\* value of another type; for an absent key str returns null and bool its
\* fallback.
FieldsThrow(rq) == rq.name = "mistyped" \/ rq.broadcast = "mistyped"

\* NameEntry.fromOptions: assert(typeof options.name === 'string') and, if
\* txHash != null, assert(typeof options.txHash === 'string').  txHash is
\* meta.response?.hash for a finish record, undefined for a begin record.
EntryAsserts(rq, logType) ==
  /\ rq.name = "typed"
  /\ logType = "finish" => rq.hash # "mistyped"

\* NameReporter.nameEntries: "null" (no entry), "entry" (one NameEntry) or
\* "throws" (the constructor's assertion fails, outside the try).
nameEntries(rq, logType) ==
  IF rq.type = "auction" THEN "null"
  ELSE IF FieldsThrow(rq) THEN "null"
  ELSE IF EntryAsserts(rq, logType) THEN "entry"
  ELSE "throws"

\* NameReporter.nameEntriesFromRequest with any method accepted.
nameEntriesAnyMethod(rq, logType) ==
  IF rq.segments # 3 THEN "null"
  ELSE IF rq.first # "wallet" THEN "null"
  ELSE IF rq.type \notin NameTypes THEN "null"
  ELSE nameEntries(rq, logType)

\* NameReporter.nameEntriesFromRequest: null unless the request is a POST
\* whose path has three segments, the first 'wallet' and the third a name
\* operation.
nameEntriesFromRequest(rq, logType) ==
  IF rq.method # "POST" THEN "null"
  ELSE IF rq.segments # 3 THEN "null"
  ELSE IF rq.first # "wallet" THEN "null"
  ELSE IF rq.type \notin NameTypes THEN "null"
  ELSE nameEntries(rq, logType)

\* bidExtra / transferExtra: the extra fields of a bid or a transfer, null
\* if they are absent or unusable (the try inside catches) and for the other
\* operations.
Extra(rq) == IF rq.type \in {"bid", "transfer"} /\ rq.extra THEN "extra" ELSE "null"

\* What logRequest / logRequestFinished does with that: returns without
\* writing, writes the entry's record (requestJSON has extra, responseJSON
\* has txHash and extra), or rejects.  The txHash of an entry is
\* meta.response?.hash when the entry is made for a finish record, and is
\* left null for a begin record.
NameLogOutcome(rq, logType) ==
  LET entries == nameEntriesFromRequest(rq, logType) IN
  IF entries = "null"
  THEN [did |-> "nothing", extra |-> "null", txHash |-> "null"]
  ELSE IF entries = "entry"
  THEN [did |-> "written", extra |-> Extra(rq),
        txHash |-> IF logType = "finish" /\ rq.hash = "typed"
                   THEN "hash" ELSE "null"]
  ELSE [did |-> "rejected", extra |-> "null", txHash |-> "null"]

\* NameReporter.logRequest for the request under consideration.
NameLogRequest ==
  /\ unit.fn = "name"
  /\ unit.out = <<>>
  /\ unit' = [unit EXCEPT !.out = <<NameLogOutcome(unit.req, "begin")>>]
  /\ UNCHANGED <<regVars, reqVars, errVars, kind, hasOnError, memory, optVars>>

\* NameReporter.logRequestFinished for it.
NameLogRequestFinished ==
  /\ unit.fn = "name"
  /\ Len(unit.out) = 1
  /\ unit' = [unit EXCEPT !.out = Append(@, NameLogOutcome(unit.req, "finish"))]
  /\ UNCHANGED <<regVars, reqVars, errVars, kind, hasOnError, memory, optVars>>

\* -------------------------------------------------------- response facade

\* The calls a handler makes on the facade, in order, each with the
\* arguments of one res.json(code, json) call: json may be left out.
CallSeqs ==
  UNION {[1..n -> {200, 404} \X {"A", "B", "undefined"}] : n \in 1..MaxSends}

\* new WrappedResponse(res) around a response nothing was sent on.
NewFacade == [sentObject |-> "null", sent |-> FALSE, code |-> 0, body |-> "null",
              rejected |-> 0]

\* The facade's json(code, json): this.sentObject = json, then the real
\* json is called with the same arguments.
FacadeJson ==
  /\ unit.fn = "facade"
  /\ unit.n < Len(unit.calls)
  /\ LET call == unit.calls[unit.n + 1]
         w == unit.wres
     IN
     unit' = [unit EXCEPT
        !.n = @ + 1,
        !.wres = IF ~w.sent
                 THEN [w EXCEPT !.sentObject = call[2], !.sent = TRUE,
                                !.code = call[1], !.body = call[2]]
                 ELSE [w EXCEPT !.sentObject = call[2],
                                !.rejected = IF unit.real = "throws"
                                             THEN @ + 1 ELSE @]]
  /\ UNCHANGED <<regVars, reqVars, errVars, kind, hasOnError, memory, optVars>>

\* ------------------------------------------------------ rotating log store

\* The store of the file and name reporters (store/rotating-file), after the
\* description of its algorithm: one current file, numbered historical
\* files of which slot 1 is the most recently rotated, and a queue that
\* serializes the writes.  A file is its generation and its lines; a line
\* is the number of the writeJSONLine call and the size of the record.

\* The sum of the sizes of the lines of a file.
RECURSIVE SizeOf(_)
SizeOf(lines) ==
  IF lines = <<>> THEN 0 ELSE Head(lines).size + SizeOf(Tail(lines))

\* open(): the current file is created when missing, and currentFileSize
\* resumes from the size of the file found (content is never truncated).
StoreOpen(maxFileSize, maxFiles, found) ==
  [fn |-> "store", maxFileSize |-> maxFileSize, maxFiles |-> maxFiles,
   current |-> found, currentFileSize |-> SizeOf(found), gen |-> 1,
   history |-> <<>>, queue |-> <<>>, issued |-> 0, phase |-> "idle",
   rotations |-> 0, deleted |-> 0, late |-> 0]

\* The rotation test made before each write.
NeedsRotationWhenEmpty(st, rec) ==
  st.currentFileSize + rec.size > st.maxFileSize

NeedsRotation(st, rec) ==
  /\ st.currentFileSize + rec.size > st.maxFileSize
  /\ st.current # <<>>

\* A write joins the writes in progress.
EnqueueFirst(queue, rec) == <<rec>> \o queue

Enqueue(queue, rec) == Append(queue, rec)

\* Deleting historical files until at most n are left.
TrimNewest(history, n) ==
  IF Len(history) <= n THEN history
  ELSE SubSeq(history, Len(history) - n + 1, Len(history))

Trim(history, n) ==
  IF Len(history) <= n THEN history ELSE SubSeq(history, 1, n)

\* writeJSONLine(json) called by a reporter callback: the record waits for
\* the writes issued before it (late counts the calls made during a
\* rotation).
StoreWriteJSONLine(size) ==
  /\ unit.fn = "store"
  /\ unit.issued < MaxWrites
  /\ unit' = [unit EXCEPT
       !.issued = @ + 1,
       !.late = IF unit.phase = "idle" THEN @ ELSE @ + 1,
       !.queue = Enqueue(@, [id |-> unit.issued + 1, size |-> size])]
  /\ UNCHANGED <<regVars, reqVars, errVars, kind, hasOnError, memory, optVars>>

\* The writer finds that the next record does not fit: the current file is
\* closed and moved to slot 1, the slots shifting, and a fresh current file
\* is opened.
StoreRotate ==
  /\ unit.fn = "store"
  /\ unit.phase = "idle"
  /\ unit.queue # <<>>
  /\ NeedsRotation(unit, Head(unit.queue))
  /\ unit' = [unit EXCEPT
       !.history = <<[gen |-> unit.gen, lines |-> unit.current]>> \o @,
       !.current = <<>>,
       !.currentFileSize = 0,
       !.gen = @ + 1,
       !.rotations = @ + 1,
       !.phase = "shifted"]
  /\ UNCHANGED <<regVars, reqVars, errVars, kind, hasOnError, memory, optVars>>

\* The rotation deletes the historical files beyond maxFiles.
StoreDeleteOldest ==
  /\ unit.fn = "store"
  /\ unit.phase = "shifted"
  /\ unit' = [unit EXCEPT
       !.history = Trim(@, unit.maxFiles),
       !.deleted = @ + Len(unit.history) - Len(Trim(unit.history, unit.maxFiles)),
       !.phase = "rotated"]
  /\ UNCHANGED <<regVars, reqVars, errVars, kind, hasOnError, memory, optVars>>

\* The writer appends the next record to the current file, after the
\* rotation when there was one.
StoreAppend ==
  /\ unit.fn = "store"
  /\ unit.queue # <<>>
  /\ \/ unit.phase = "rotated"
     \/ unit.phase = "idle" /\ ~NeedsRotation(unit, Head(unit.queue))
  /\ unit' = [unit EXCEPT
       !.current = Append(@, Head(unit.queue)),
       !.currentFileSize = @ + Head(unit.queue).size,
       !.queue = Tail(@),
       !.phase = "idle"]
  /\ UNCHANGED <<regVars, reqVars, errVars, kind, hasOnError, memory, optVars>>

\* ------------------------------------------------------ request interceptor

\* new FinishedMetaData(), the fresh response object and the history of one
\* wrapped invocation.
NewReq == [pc |-> "new", name |-> FALSE,
           start |-> 0, end |-> 0, statusCode |-> -1,
           errored |-> "null", response |-> "null",
           hasMeta |-> FALSE,                 \* req.meta assigned
           meta |-> 0,        \* the FinishedMetaData whandler constructed
           beginMeta |-> 0,   \* the one passed to logRequest
           reqMeta |-> 0,     \* req.meta
           finishMeta |-> 0,  \* the one passed to the finish dispatch loop
           sent |-> FALSE, resStatus |-> 0,   \* res.sent, res.statusCode
           hookSent |-> "null",  \* sentObject of the response the hook wrapped
           hookThrew |-> FALSE,  \* the host's onError rejected
           hCalls |-> 0, nBegin |-> 0, nFinish |-> 0,
           hResult |-> "none", wResult |-> "none"]

\* Whether reporter id's logRequest / logRequestFinished reaches an awaited
\* store.writeJSONLine for this request: the file reporter always does, the
\* name reporter only for a name request (nameEntriesFromRequest), the
\* console reporter never (its bodies have no await).
Writes(id, isName) == id = "file" \/ (id = "name" /\ isName)

\* A dispatch loop over every instance constructed so far, opened or not.
DispatchConstructed(r, phase, isName) ==
  {<<r, i, phase>> : i \in {j \in Ops : instances[j].id # "none"
                                       /\ Writes(instances[j].id, isName)}}

\* for (const reporter of this.enabledReporters.values())
\*   all.push(reporter.logRequest...(req, ...)):
\* the callbacks left running when the loop ends.
Dispatch(r, phase, isName) ==
  {<<r, i, phase>> : i \in {j \in EnabledInstances : Writes(instances[j].id, isName)}}

\* The callbacks of request r's fan-out that have not settled.
Pending(r, phase) == {c \in running : c[1] = r /\ c[2] \in Ops /\ c[3] = phase}

\* await Promise.all(all) resolves: every callback has resolved.
FanOutSettled(r, phase) == Pending(r, phase) = {}

\* The fan-out request r is suspended on, if any.
Awaits(r, phase) ==
  \/ phase = "begin" /\ reqs[r].pc = "begin"
  \/ phase = "finish" /\ reqs[r].pc \in {"finish", "errfinish"}

\* A whandler that uses one metadata object for every invocation.
SharedMeta(n) == 1

\* new FinishedMetaData(): an object distinct from the n constructed before.
FreshMeta(n) == n + 1

\* whandler up to `await this.logRequest(req, meta)`.
Start(r, isName) ==
  /\ reqs[r].pc = "new"
  /\ IF r = 1 THEN TRUE ELSE reqs[r - 1].pc # "new"
  /\ reqs' = [reqs EXCEPT ![r].pc = "begin", ![r].name = isName,
                          ![r].meta = FreshMeta(nMeta),
                          ![r].beginMeta = FreshMeta(nMeta),
                          ![r].start = clock, ![r].nBegin = @ + 1]
  /\ nMeta' = nMeta + 1
  /\ clock' = clock + 1
  /\ running' = running \cup Dispatch(r, "begin", isName)
  /\ UNCHANGED <<failed, records, finishLog, regVars, errVars, envVars>>

\* One reporter callback settles (its store write resolves or rejects).  A
\* rejection rejects the Promise.all the request is suspended on, and with it
\* the wrapped handler (or the onError hook) that awaits the fan-out.
CallbackDone(r, i, phase, outcome) ==
  /\ <<r, i, phase>> \in running
  /\ outcome \in StoreOutcomes(instances[i].id)
  /\ running' = running \ {<<r, i, phase>>}
  /\ records' = IF outcome = "ok" THEN records \cup {<<r, i, phase>>} ELSE records
  /\ IF outcome = "fail"
     THEN /\ failed' = failed \cup {instances[i].id}
          /\ reqs' = IF ~Awaits(r, phase) THEN reqs
                     ELSE IF reqs[r].pc = "errfinish"
                     THEN [reqs EXCEPT ![r].pc = "done"]
                     ELSE [reqs EXCEPT ![r].pc = "settled", ![r].wResult = "throwRep"]
     ELSE UNCHANGED <<failed, reqs>>
  /\ UNCHANGED <<clock, finishLog, nMeta, regVars, errVars, envVars>>

\* whandler after `await this.logRequest(req, meta)`: handler(req, wres).
BeginResolved(r) ==
  /\ reqs[r].pc = "begin"
  /\ FanOutSettled(r, "begin")
  /\ reqs' = [reqs EXCEPT ![r].pc = "handler", ![r].hCalls = @ + 1]
  /\ UNCHANGED <<running, clock, failed, histVars, regVars, errVars, envVars>>

\* The ways a handler answers before it returns: res.json(200, body),
\* res.json(404) with no payload, or nothing sent.
Sends == {"json", "nobody", "none"}

\* res.statusCode after the handler answered that way.
SentStatus(sends) == IF sends = "json" THEN 200 ELSE IF sends = "nobody" THEN 404 ELSE 0

\* wres.sentObject after the handler answered that way: the payload passed
\* to json, if any.
SentObject(sends) == IF sends = "json" THEN "body" ELSE "null"

\* A metadata whose end is left as FinishedMetaData constructs it (0n).
MetaEndDefault == 0

\* meta.end = process.hrtime.bigint()
MetaEnd == clock

\* FinishedMetaData.diff
diff(rq) == rq.end - rq.start

\* A dispatch loop whose calls come before those already made.
InvokedFirst(log, r) == <<[req |-> r, on |-> EnabledInstances]>> \o log

\* The order in which the reporters' logRequestFinished is invoked: the
\* dispatch loop calls it on every enabled instance, one after the other,
\* before anything else runs.
Invoked(log, r) == Append(log, [req |-> r, on |-> EnabledInstances])

\* The handler returns, having answered in one of the ways above:
\* meta.statusCode, meta.response, meta.end, logRequestFinished up to its
\* await.  assert(res.sent) rejects the call before the dispatch loop.
HandlerReturns(r, sends) ==
  /\ reqs[r].pc = "handler"
  /\ reqs' = [reqs EXCEPT
        ![r].hResult = "ret",
        ![r].sent = sends # "none",
        ![r].resStatus = SentStatus(sends),
        ![r].statusCode = SentStatus(sends),
        ![r].response = SentObject(sends),
        ![r].end = MetaEnd,
        ![r].finishMeta = IF sends # "none" THEN reqs[r].meta ELSE @,
        ![r].nFinish = IF sends # "none" THEN @ + 1 ELSE @,
        ![r].wResult = IF sends # "none" THEN "none" ELSE "throwAssert",
        ![r].pc = IF sends # "none" THEN "finish" ELSE "settled"]
  /\ clock' = clock + 1
  /\ running' = IF sends # "none"
                THEN running \cup Dispatch(r, "finish", reqs[r].name)
                ELSE running
  /\ finishLog' = IF sends # "none" THEN Invoked(finishLog, r) ELSE finishLog
  /\ UNCHANGED <<failed, records, nMeta, regVars, errVars, envVars>>

\* The handler throws e (e.statusCode = 404), having answered in one of the
\* ways above or not at all: catch (e) { req.meta = meta; throw e; }.
\* meta.statusCode and meta.response are not assigned on this path.
HandlerThrows(r, sends) ==
  /\ reqs[r].pc = "handler"
  /\ reqs' = [reqs EXCEPT ![r].hResult = "throw", ![r].hasMeta = TRUE,
                          ![r].reqMeta = reqs[r].meta,
                          ![r].sent = sends # "none",
                          ![r].resStatus = SentStatus(sends),
                          ![r].wResult = "throwH", ![r].pc = "settled"]
  /\ UNCHANGED <<running, clock, failed, histVars, regVars, errVars, envVars>>

\* whandler after `await this.logRequestFinished(req, res, meta)`:
\* return result.
FinishResolved(r) ==
  /\ reqs[r].pc = "finish"
  /\ FanOutSettled(r, "finish")
  /\ reqs' = [reqs EXCEPT ![r].wResult = "ret", ![r].pc = "done"]
  /\ UNCHANGED <<running, clock, failed, histVars, regVars, errVars, envVars>>

\* await _onError(err, req, wres): the host's own error handler is not part
\* of this program, so the call has any of the effects such a handler can
\* have on the response it is given.  It answers through wres.json(code,
\* body) ("json": the facade records the body), it answers through another
\* operation of the response ("other"), it does not answer ("nothing"), or
\* it throws ("throws").  A response that was already sent keeps its status.
HostOnError(rq, how, code) ==
  [sent |-> IF how \in {"json", "other"} THEN TRUE ELSE rq.sent,
   resStatus |-> IF how \in {"json", "other"} /\ ~rq.sent THEN code
                 ELSE rq.resStatus,
   sentObject |-> IF how = "json" THEN "error" ELSE "null",
   threw |-> how = "throws"]

\* The host handles the error W threw.  wrapError installs its hook only if
\* the host has an onError; the hook wraps the response in a new facade and
\* calls the host's own onError with it, and awaits it.
HostError(r, how, code) ==
  /\ reqs[r].pc = "settled"
  /\ IF ~hasOnError
     THEN reqs' = [reqs EXCEPT ![r].pc = "done"]
     ELSE LET h == HostOnError(reqs[r], how, code) IN
          reqs' = [reqs EXCEPT ![r].sent = h.sent,
                               ![r].resStatus = h.resStatus,
                               ![r].hookSent = h.sentObject,
                               ![r].hookThrew = h.threw,
                               ![r].pc = "onerror"]
  /\ UNCHANGED <<running, clock, failed, histVars, regVars, errVars, envVars>>

\* The onError hook after `await _onError(err, req, wres)`: a rejection of
\* the host's handler leaves the hook; it returns if req.meta is unset, else
\* fills meta from the response as it is then and calls logRequestFinished,
\* up to its await.  assert(res.sent) rejects the call before the dispatch
\* loop.
HookResumes(r) ==
  /\ reqs[r].pc = "onerror"
  /\ IF reqs[r].hookThrew \/ ~reqs[r].hasMeta
     THEN /\ reqs' = [reqs EXCEPT ![r].pc = "done"]
          /\ UNCHANGED <<running, clock, finishLog>>
     ELSE /\ reqs' = [reqs EXCEPT
                ![r].statusCode = reqs[r].resStatus,
                ![r].errored = reqs[r].hookSent,
                ![r].end = MetaEnd,
                ![r].finishMeta = IF reqs[r].sent THEN reqs[r].reqMeta ELSE @,
                ![r].nFinish = IF reqs[r].sent THEN @ + 1 ELSE @,
                ![r].pc = IF reqs[r].sent THEN "errfinish" ELSE "done"]
          /\ clock' = clock + 1
          /\ running' = IF reqs[r].sent
                        THEN running \cup Dispatch(r, "finish", reqs[r].name)
                        ELSE running
          /\ finishLog' = IF reqs[r].sent THEN Invoked(finishLog, r) ELSE finishLog
  /\ UNCHANGED <<failed, records, nMeta, regVars, errVars, envVars>>

\* The onError hook after `await this.logRequestFinished(req, res, meta)`.
ErrFinishResolved(r) ==
  /\ reqs[r].pc = "errfinish"
  /\ FanOutSettled(r, "finish")
  /\ reqs' = [reqs EXCEPT ![r].pc = "done"]
  /\ UNCHANGED <<running, clock, failed, histVars, regVars, errVars, envVars>>

\* ------------------------------------------------------------------- plugin

\* The reporters Plugin.init queues for a logger with the default flags
\* (weblog-reporter-console, -file, -names all true), in the order
\* Plugin.register registers them: the name reporter on the wallet only.
PluginReporters(k) ==
  IF k = "wallet" THEN <<"console", "file", "name">> ELSE <<"console", "file">>

\* A Plugin that enables its reporters whatever the memory option says.
PluginEnablesAlways(mem) == TRUE

\* Plugin.open: the `enable` it passes to register, !this.memory.
PluginEnables(mem) == ~mem

\* Plugin.open for this logger: Plugin.register calls logger.register for
\* every queued reporter in one loop, so every register call runs up to its
\* await (the open() of its instance, if it enables) before anything else.
PluginOpen ==
  /\ nOps = 0
  /\ LET rs == PluginReporters(kind)
         n == Len(rs)
         en == PluginEnables(memory)
     IN
     /\ nOps' = n
     /\ availableReporters' = {rs[k] : k \in 1..n}
     /\ descriptors' = [id \in ReporterIds |->
                          IF \E k \in 1..n : rs[k] = id
                          THEN CHOOSE k \in 1..n : rs[k] = id
                          ELSE NoDescriptor]
     /\ ops' = [k \in Ops |->
                  IF k > n THEN NoOp
                  ELSE [kind |-> "register", id |-> rs[k],
                        pc |-> IF en THEN "opening" ELSE "done",
                        inst |-> IF en THEN k ELSE NoInst]]
     /\ instances' = [k \in Ops |->
                        IF k <= n /\ en
                        THEN [id |-> rs[k], state |-> "opening", listener |-> FALSE]
                        ELSE NoInstance]
  /\ UNCHANGED <<enabledReporters, expected, responses>>
  /\ UNCHANGED <<reqVars, errVars, envVars>>

\* Plugin.unregister(logger, reporters) with this logger and its reporters:
\* logger.unregister for each of them in one loop, then
\* `await Promise.all(unregisters)`.
PluginUnregister == Unregisters(PluginReporters(kind))

\* The hosts the Plugin is constructed on: whether the node has a chain
\* (a full or SPV node), whether it has a wdb (a wallet node), whether
\* node.get('walletdb') finds the wallet plugin, and the weblog-node,
\* weblog-wallet and memory options.
Hosts ==
  [chain : BOOLEAN, wdb : BOOLEAN, walletdb : BOOLEAN,
   logNode : BOOLEAN, logWallet : BOOLEAN, memory : BOOLEAN]

\* Plugin.init: this.wallet is the node itself on a wallet node and the
\* walletdb plugin of a node that has one; the node logger is created if
\* weblog-node is set (this.node is always there), the wallet logger if
\* there is a wallet and weblog-wallet is set.
HasWalletLogger(h) == (h.wdb \/ (h.chain /\ h.walletdb)) /\ h.logWallet

\* The node branch of open(): this.walletLogger.on('error', ...), which is
\* a TypeError when there is no wallet logger, then the registration of the
\* node reporters.
OpenNodeBranch(u) ==
  IF ~u.nodeLogger THEN [u EXCEPT !.pc = "opened"]
  ELSE IF ~u.walletLogger THEN [u EXCEPT !.pc = "threw", !.error = "TypeError"]
  ELSE [u EXCEPT !.walletListeners = @ + 1,
                 !.registered = @ \cup {"node"},
                 !.pc = "nodeRegistering"]

\* Plugin.open up to its first await: init(), logger.init() for each
\* logger, then the wallet branch (listener on the wallet logger, its
\* reporters registered) or, without a wallet logger, the node branch.
PluginOpenBegins ==
  /\ unit.fn = "plugin"
  /\ unit.pc = "new"
  /\ LET u == [unit EXCEPT !.nodeLogger = unit.host.logNode,
                           !.walletLogger = HasWalletLogger(unit.host),
                           !.enable = PluginEnables(unit.host.memory)]
     IN
     unit' = IF u.walletLogger
             THEN [u EXCEPT !.walletListeners = @ + 1,
                            !.registered = @ \cup {"wallet"},
                            !.pc = "walletRegistering"]
             ELSE OpenNodeBranch(u)
  /\ UNCHANGED <<regVars, reqVars, errVars, kind, hasOnError, memory, optVars>>

\* Plugin.open after `await this.register(this.walletLogger, ...)`: the
\* node branch, which a rejected registration never reaches (open() rejects
\* with the store's error).  The registration resolves when every
\* logger.register did; when the reporters are enabled it can reject,
\* because the store of an instance failed to open.
PluginOpenNode(outcome) ==
  /\ unit.fn = "plugin"
  /\ unit.pc = "walletRegistering"
  /\ outcome = "fail" => unit.enable
  /\ unit' = IF outcome = "ok" THEN OpenNodeBranch(unit)
             ELSE [unit EXCEPT !.pc = "threw", !.error = "store"]
  /\ UNCHANGED <<regVars, reqVars, errVars, kind, hasOnError, memory, optVars>>

\* Plugin.open after `await this.register(this.nodeLogger, ...)`.
PluginOpenEnds(outcome) ==
  /\ unit.fn = "plugin"
  /\ unit.pc = "nodeRegistering"
  /\ outcome = "fail" => unit.enable
  /\ unit' = IF outcome = "ok" THEN [unit EXCEPT !.pc = "opened"]
             ELSE [unit EXCEPT !.pc = "threw", !.error = "store"]
  /\ UNCHANGED <<regVars, reqVars, errVars, kind, hasOnError, memory, optVars>>

\* The two loggers of one Plugin.  Each Map and each reporter instance is
\* an object: a logger holds references, and what a reference leads to is
\* in the object store (available, enabled and options below are indexed
\* by object, not by logger).
Loggers == {"node", "wallet"}

\* Loggers constructed around the same pair of Maps.
SharedMap(l) == 1

\* new Map() in the Logger constructor: an object of the logger's own.
NewMap(l) == IF l = "node" THEN 1 ELSE 2

\* One logger.register / enableReporter / disableReporter call made on
\* logger l for reporter id: where it stands, the instance it constructed
\* or closes, and (for an enable) the options object of its instance.
\* Instance k is the one call k constructed.
PairCall(l, what, id, pc, inst) ==
  [l |-> l, kind |-> what, id |-> id, pc |-> pc, inst |-> inst,
   options |-> DefaultOptions]

\* Plugin.register(logger, reporters, !this.memory) up to its await, for
\* the wallet logger in the first segment of Plugin.open (after init() and
\* logger.init(), which installs the management routes) and for the node
\* logger once the wallet registration has resolved: logger.register for
\* each reporter, which asserts that the id is new, stores the descriptor
\* and, when it enables, runs enableReporter up to `await instance.open()`.
PairRegister(l) ==
  /\ unit.fn = "pair"
  /\ IF l = "wallet" THEN unit.pc = "new"
     ELSE /\ unit.pc = "walletRegistering"
          /\ \A k \in 1..Len(unit.calls) :
               (unit.calls[k].l = "wallet" /\ unit.calls[k].kind = "register")
                 => unit.calls[k].pc = "done"
  /\ LET a == unit.loggers[l].availableReporters
         rs == PluginReporters(l)
         en == PluginEnables(unit.memory)
         n0 == Len(unit.calls)
         new == [n \in 1..Len(rs) |->
                   IF rs[n] \in unit.available[a]
                   THEN PairCall(l, "register", rs[n], "threw", NoInst)
                   ELSE IF en
                   THEN PairCall(l, "register", rs[n], "opening", n0 + n)
                   ELSE PairCall(l, "register", rs[n], "done", NoInst)]
     IN
     unit' = [unit EXCEPT
       !.available[a] = @ \cup {rs[n] : n \in 1..Len(rs)},
       !.calls = @ \o new,
       !.pc = IF l = "wallet" THEN "walletRegistering" ELSE "nodeRegistering",
       !.last = l]
  /\ UNCHANGED <<regVars, reqVars, errVars, kind, hasOnError, memory, optVars>>

\* Plugin.open after an `await this.register(...)` that rejected (the
\* Promise.all rejects with the first logger.register that does), and after
\* the node registration resolved.
PairOpenSettles ==
  /\ unit.fn = "pair"
  /\ LET l == IF unit.pc = "walletRegistering" THEN "wallet" ELSE "node"
         regs == {k \in 1..Len(unit.calls) :
                    unit.calls[k].l = l /\ unit.calls[k].kind = "register"}
     IN
     /\ unit.pc \in {"walletRegistering", "nodeRegistering"}
     /\ IF \E k \in regs : unit.calls[k].pc = "threw"
        THEN unit' = [unit EXCEPT !.pc = "threw", !.last = "none"]
        ELSE /\ unit.pc = "nodeRegistering"
             /\ \A k \in regs : unit.calls[k].pc = "done"
             /\ unit' = [unit EXCEPT !.pc = "opened", !.last = "none"]
  /\ UNCHANGED <<regVars, reqVars, errVars, kind, hasOnError, memory, optVars>>

\* enableReporter of call k after `await instance.open()`:
\* enabledReporters.set(id, instance), which a rejected open() never
\* reaches.  The caller (logger.register, the PUT /bweb-log handler) ends
\* with it.
PairOpenDone(k, outcome) ==
  /\ unit.fn = "pair"
  /\ k \in 1..Len(unit.calls)
  /\ unit.calls[k].pc = "opening"
  /\ outcome \in StoreOutcomes(unit.calls[k].id)
  /\ LET c == unit.calls[k]
         e == unit.loggers[c.l].enabledReporters
     IN
     unit' = [unit EXCEPT
       !.enabled[e][c.id] = IF outcome = "ok" THEN k ELSE @,
       !.calls[k].pc = IF outcome = "ok" THEN "done" ELSE "threw",
       !.last = c.l]
  /\ UNCHANGED <<regVars, reqVars, errVars, kind, hasOnError, memory, optVars>>

\* disableReporter of call k after `await instance.close()`:
\* enabledReporters.delete(id).  A PUT /bweb-log handler ends with it; an
\* unregister goes on to this.repoterCache.delete and throws there.
PairCloseDone(k, outcome) ==
  /\ unit.fn = "pair"
  /\ k \in 1..Len(unit.calls)
  /\ unit.calls[k].pc = "closing"
  /\ outcome \in StoreOutcomes(unit.calls[k].id)
  /\ LET c == unit.calls[k]
         e == unit.loggers[c.l].enabledReporters
     IN
     unit' = [unit EXCEPT
       !.enabled[e][c.id] = IF outcome = "ok" THEN NoInst ELSE @,
       !.calls[k].pc = IF outcome = "ok" /\ c.kind = "put" THEN "done" ELSE "threw",
       !.last = c.l]
  /\ UNCHANGED <<regVars, reqVars, errVars, kind, hasOnError, memory, optVars>>

\* PUT /bweb-log { id, enabled: status } on the server of logger l, up to
\* its await (or to its answer when it awaits nothing; the answers are not
\* recorded here).  The routes exist once logger.init() has run.
PairPut(l, id, status) ==
  /\ unit.fn = "pair"
  /\ unit.pc # "new"
  /\ unit.nReq < MaxPairReq
  /\ LET a == unit.loggers[l].availableReporters
         e == unit.loggers[l].enabledReporters
         i == unit.enabled[e][id]
         n == Len(unit.calls) + 1
     IN
     unit' = [unit EXCEPT
       !.calls = IF id \notin unit.available[a] THEN @
                 ELSE IF ~status /\ i # NoInst
                 THEN Append(@, PairCall(l, "put", id, "closing", i))
                 ELSE IF status /\ i = NoInst
                 THEN Append(@, PairCall(l, "put", id, "opening", n))
                 ELSE @,
       !.nReq = @ + 1,
       !.last = l]
  /\ UNCHANGED <<regVars, reqVars, errVars, kind, hasOnError, memory, optVars>>

\* PUT /bweb-log/file on the server of logger l, its file reporter enabled:
\* setOptions on the instance in the enabled map.
PairSetOptions(l, body) ==
  /\ unit.fn = "pair"
  /\ unit.pc # "new"
  /\ unit.nReq < MaxPairReq
  /\ LET a == unit.loggers[l].availableReporters
         e == unit.loggers[l].enabledReporters
         i == unit.enabled[e]["file"]
     IN
     /\ "file" \in unit.available[a]
     /\ i # NoInst
     /\ unit' = [unit EXCEPT
          !.calls[i].options = fromReq(@, body).options,
          !.nReq = @ + 1,
          !.last = l]
  /\ UNCHANGED <<regVars, reqVars, errVars, kind, hasOnError, memory, optVars>>

\* Plugin.unregister(logger, reporters) with the reporters of logger l, up
\* to its await: logger.unregister for each, which for an enabled reporter
\* runs disableReporter up to `await instance.close()` and otherwise throws
\* (its assertion for an id that is not registered, repoterCache for one
\* that is).
PairUnregister(l) ==
  /\ unit.fn = "pair"
  /\ unit.pc # "new"
  /\ unit.nReq < MaxPairReq
  /\ LET a == unit.loggers[l].availableReporters
         e == unit.loggers[l].enabledReporters
         closes(id) == id \in unit.available[a] /\ unit.enabled[e][id] # NoInst
         rs == SelectSeq(PluginReporters(l), closes)
     IN
     unit' = [unit EXCEPT
       !.calls = @ \o [n \in 1..Len(rs) |->
                   PairCall(l, "unregister", rs[n], "closing", unit.enabled[e][rs[n]])],
       !.nReq = @ + 1,
       !.last = l]
  /\ UNCHANGED <<regVars, reqVars, errVars, kind, hasOnError, memory, optVars>>

\* ------------------------------------------------------------ error channel

\* Plugin.open with both loggers present: the listener that re-emits on the
\* Plugin is attached to this.walletLogger in the walletLogger branch and
\* again to this.walletLogger in the nodeLogger branch.
PluginForwards(k) == k = "wallet"

\* An enabled instance emits 'error': the listener enableReporter attached is
\* Logger.error, which emits 'error' on the Logger; the Plugin re-emits what
\* its listener receives.
ReporterEmitError(i) ==
  /\ instances[i].listener
  /\ loggerErrors' = loggerErrors \cup {instances[i].id}
  /\ pluginErrors' = IF PluginForwards(kind)
                     THEN pluginErrors \cup {instances[i].id}
                     ELSE pluginErrors
  /\ UNCHANGED <<regVars, reqVars, envVars>>

\* ------------------------------------------------------------ specification

\* No request served, no /bweb-log/:id request made.
InitIdle ==
  /\ answer = [n \in 1..MaxOptReq |-> NoAnswer]
  /\ nOpt = 0
  /\ records = {}
  /\ finishLog = <<>>
  /\ nMeta = 0

\* A Logger as constructed.
Constructed ==
  /\ kind \in LoggerKinds
  /\ hasOnError \in BOOLEAN
  /\ availableReporters = {}
  /\ enabledReporters = [id \in ReporterIds |-> NoInst]
  /\ instances = [i \in Ops |-> NoInstance]
  /\ ops = [k \in Ops |-> NoOp]
  /\ nOps = 0
  /\ reqs = [r \in Reqs |-> NewReq]
  /\ running = {}
  /\ clock = 1
  /\ loggerErrors = {}
  /\ pluginErrors = {}
  /\ expected = {}
  /\ failed = {}
  /\ descriptors = [id \in ReporterIds |-> NoDescriptor]
  /\ responses = [k \in Ops |-> NoResponse]
  /\ options = [i \in Ops |-> DefaultOptions]
  /\ InitIdle

\* A Logger on its own: no Plugin, so no Plugin option applies to it.
Init == Constructed /\ memory = FALSE /\ unit = NoUnit

\* The registry calls and the error channel.
NextRegistry ==
  \/ \E id \in ReporterIds, en \in BOOLEAN : CallRegister(id, en)
  \/ \E id \in ReporterIds : CallEnable(id)
  \/ \E id \in ReporterIds : CallDisable(id)
  \/ \E k \in Ops, o \in {"ok", "fail"} : OpenDone(k, o)
  \/ \E k \in Ops, o \in {"ok", "fail"} : CloseDone(k, o)
  \/ \E i \in Ops : ReporterEmitError(i)

\* The registry with reporters unregistered as well.
NextLifecycle ==
  \/ \E id \in ReporterIds, en \in BOOLEAN : CallRegister(id, en)
  \/ \E id \in ReporterIds : Unregisters(<<id>>)
  \/ PluginUnregister
  \/ \E id \in ReporterIds : CallEnable(id)
  \/ \E id \in ReporterIds : CallDisable(id)
  \/ \E k \in Ops, o \in {"ok", "fail"} : OpenDone(k, o)
  \/ \E k \in Ops, o \in {"ok", "fail"} : CloseDone(k, o)
  \/ \E k \in Ops : Resumes(k)

SpecLifecycle == Init /\ [][NextLifecycle]_vars

\* The management interface: reporters are registered, then enabled and
\* disabled through PUT /bweb-log requests with any body (`enabled` may be
\* a boolean, missing, or not a boolean).
NextManage ==
  \/ \E id \in ReporterIds, en \in BOOLEAN : CallRegister(id, en)
  \/ \E id \in ReporterIds, f \in FieldValues : CallPutBody(id, f)
  \/ \E k \in Ops, o \in {"ok", "fail"} : OpenDone(k, o)
  \/ \E k \in Ops, o \in {"ok", "fail"} : CloseDone(k, o)
  \/ \E k \in Ops : Resumes(k)

\* What the host's own onError may do with an error: how it answers, and
\* the status it answers with (the error's own 404, or another one).
HostAnswers == {"json", "other", "nothing", "throws"} \X {404, 500}

\* One such host: its onError answers every error through res.json with
\* the error's own status.
JsonHost == {<<"json", 404>>}

\* The wrapped handler, the host's error path and the reporter callbacks,
\* for the requests R, handlers that answer in one of the ways S before they
\* return and in one of the ways T before they throw, and a host whose
\* onError behaves in one of the ways H.
Serving(R, S, T, H) ==
  \/ \E r \in R, nm \in BOOLEAN : Start(r, nm)
  \/ \E c \in running, o \in {"ok", "fail"} : CallbackDone(c[1], c[2], c[3], o)
  \/ \E r \in R : BeginResolved(r)
  \/ \E r \in R, s \in S : HandlerReturns(r, s)
  \/ \E r \in R, s \in T : HandlerThrows(r, s)
  \/ \E r \in R : FinishResolved(r)
  \/ \E r \in R, h \in H : HostError(r, h[1], h[2])
  \/ \E r \in R : HookResumes(r)
  \/ \E r \in R : ErrFinishResolved(r)

\* The registry from construction, no request in flight.
SpecRegistry == Init /\ [][NextRegistry]_vars

\* The registry driven through the management interface.
SpecManage == Init /\ [][NextManage]_vars

\* The state Plugin.open() leaves a logger in: every queued reporter
\* registered, and enabled unless the node runs with the memory option
\* (register(Reporter, options, !this.memory)), all opens having succeeded.
PluginOpened ==
  /\ kind \in LoggerKinds
  /\ hasOnError \in BOOLEAN
  /\ memory \in BOOLEAN
  /\ LET rs == PluginReporters(kind)
           n == Len(rs)
           idx(id) == CHOOSE k \in 1..n : rs[k] = id
           ids == {rs[k] : k \in 1..n}
       IN
       /\ availableReporters = ids
       /\ enabledReporters = [id \in ReporterIds |->
                                IF id \in ids /\ ~memory THEN idx(id) ELSE NoInst]
       /\ instances = [i \in Ops |->
                         IF i <= n /\ ~memory
                         THEN [id |-> rs[i], state |-> "open", listener |-> TRUE]
                         ELSE NoInstance]
       /\ ops = [k \in Ops |->
                   IF k <= n
                   THEN [kind |-> "register", id |-> rs[k], pc |-> "done",
                         inst |-> IF memory THEN NoInst ELSE k]
                   ELSE NoOp]
       /\ nOps = n
       /\ expected = IF memory THEN {} ELSE ids
       /\ descriptors = [id \in ReporterIds |->
                           IF id \in ids THEN idx(id) ELSE NoDescriptor]
  /\ reqs = [r \in Reqs |-> NewReq]
  /\ running = {}
  /\ clock = 1
  /\ loggerErrors = {}
  /\ pluginErrors = {}
  /\ failed = {}
  /\ responses = [k \in Ops |-> NoResponse]
  /\ InitIdle
  /\ unit = NoUnit

\* A logger the Plugin has opened, the file reporter's options left at their
\* defaults.
InitServing == PluginOpened /\ options = [i \in Ops |-> DefaultOptions]

\* Requests served by a logger the Plugin has opened, on a host that
\* answers errors through res.json: the handlers answer with a body or not
\* at all before they return, and throw before they have answered.
SpecServing ==
  InitServing /\ [][Serving(Reqs, {"json", "none"}, {"none"}, JsonHost)]_vars

\* Requests served by a logger the Plugin has opened, with handlers and a
\* host error handler that behave in any way.
SpecError == InitServing /\ [][Serving(Reqs, Sends, Sends, HostAnswers)]_vars

\* Requests (every way of answering before a return, on a host that answers
\* errors through res.json) interleaved with enableReporter and
\* disableReporter calls.
NextLive ==
  \/ Serving(1..MaxLiveReq, Sends, {"none"}, JsonHost)
  \/ \E id \in ReporterIds : CallEnable(id)
  \/ \E id \in ReporterIds : CallDisable(id)
  \/ \E k \in Ops, o \in {"ok", "fail"} : OpenDone(k, o)
  \/ \E k \in Ops, o \in {"ok", "fail"} : CloseDone(k, o)

\* The node logger, as the Plugin opened it.
InitLive == InitServing /\ kind = "node"

\* Requests on the node logger while reporters are enabled and disabled.
SpecLive == InitLive /\ [][NextLive]_vars

\* A logger the Plugin has opened, with any configuration of the file
\* reporter: checkReporters hands the logger's file-params and file-response
\* settings to register, and every file instance of the logger is built
\* from them.
InitOptions ==
  /\ PluginOpened
  /\ ~hasOnError
  /\ \E lp \in BOOLEAN, lr \in BOOLEAN :
       options = [i \in Ops |-> [logParams |-> lp, logResponse |-> lr]]

\* The reporter-options routes of the management interface.  Only the file
\* reporter reads the body of a PUT.
NextOptions ==
  \/ \E id \in ReporterIds : GetOptions(id)
  \/ \E body \in Bodies : PutOptions("file", body)
  \/ \E id \in ReporterIds \ {"file"} : PutOptions(id, NoBody)
  \/ \E n \in 1..MaxOptReq : OptionsRead(n)
  \/ \E n \in 1..MaxOptReq : OptionsAnswer(n)

SpecOptions == InitOptions /\ [][NextOptions]_vars

\* A file reporter with any options, about to log one request.
InitRecord ==
  /\ Constructed
  /\ memory = FALSE
  /\ kind = "node"
  /\ ~hasOnError
  /\ \E rq \in Requests, rs \in Responses, lp \in BOOLEAN, lr \in BOOLEAN :
       unit = [fn |-> "file", req |-> rq, response |-> rs,
               options |-> [logParams |-> lp, logResponse |-> lr],
               written |-> <<>>]

\* The two records of the request.
NextRecord == FileLogRequest \/ FileLogRequestFinished

SpecRecord == InitRecord /\ [][NextRecord]_vars

\* A name reporter about to log one POST /wallet/:id/<type> request.
InitName ==
  /\ Constructed
  /\ memory = FALSE
  /\ kind = "wallet"
  /\ ~hasOnError
  /\ \E rq \in NameRequests : unit = [fn |-> "name", req |-> rq, out |-> <<>>]

\* The two callbacks of the request.
NextName == NameLogRequest \/ NameLogRequestFinished

SpecName == InitName /\ [][NextName]_vars

\* A handler about to make its res.json calls on a fresh facade.
InitFacade ==
  /\ Constructed
  /\ memory = FALSE
  /\ kind = "node"
  /\ ~hasOnError
  /\ \E cs \in CallSeqs, re \in {"throws", "ignored"} :
       unit = [fn |-> "facade", calls |-> cs, real |-> re, n |-> 0,
               wres |-> NewFacade]

SpecFacade == InitFacade /\ [][FacadeJson]_vars

\* A store just opened on a directory where the current file is missing or
\* holds what an earlier run wrote, with maxFileSize 2 and up and maxFiles 1
\* or 2.
InitStore ==
  /\ Constructed
  /\ memory = FALSE
  /\ kind = "node"
  /\ ~hasOnError
  /\ \E m \in 2..MaxRecordSize, n \in 1..2, found \in 0..1 :
       unit = StoreOpen(m, n, IF found = 0 THEN <<>>
                              ELSE <<[id |-> 0, size |-> found]>>)

\* Callbacks handing records to the store while its writer works; a record
\* may be larger than a whole file.
NextStore ==
  \/ \E size \in 1..MaxRecordSize : StoreWriteJSONLine(size)
  \/ StoreRotate
  \/ StoreDeleteOldest
  \/ StoreAppend

SpecStore == InitStore /\ [][NextStore]_vars

\* A Plugin constructed on any host, about to be opened.
InitPlugin ==
  /\ Constructed
  /\ memory = FALSE
  /\ kind = "node"
  /\ ~hasOnError
  /\ \E h \in Hosts :
       unit = [fn |-> "plugin", host |-> h, pc |-> "new",
               nodeLogger |-> FALSE, walletLogger |-> FALSE,
               nodeListeners |-> 0, walletListeners |-> 0,
               registered |-> {}, enable |-> FALSE, error |-> "none"]

\* The segments of Plugin.open.
NextPlugin ==
  \/ PluginOpenBegins
  \/ \E o \in {"ok", "fail"} : PluginOpenNode(o)
  \/ \E o \in {"ok", "fail"} : PluginOpenEnds(o)

SpecPlugin == InitPlugin /\ [][NextPlugin]_vars

\* A Plugin constructed on a host where it creates both loggers, with or
\* without the memory option; Plugin.open not yet called.
InitPair ==
  /\ Constructed
  /\ memory = FALSE
  /\ kind = "node"
  /\ ~hasOnError
  /\ \E mem \in BOOLEAN :
       unit = [fn |-> "pair", memory |-> mem,
               loggers |-> [l \in Loggers |->
                             [availableReporters |-> NewMap(l),
                              enabledReporters |-> NewMap(l)]],
               available |-> [m \in 1..2 |-> {}],
               enabled |-> [m \in 1..2 |-> [id \in ReporterIds |-> NoInst]],
               calls |-> <<>>, pc |-> "new", nReq |-> 0, last |-> "none"]

\* Plugin.open and the opens it awaits, with management requests on either
\* server and Plugin.unregister calls meanwhile and afterwards.
NextPair ==
  \/ \E l \in Loggers : PairRegister(l)
  \/ PairOpenSettles
  \/ \E k \in 1..(5 + 3 * MaxPairReq), o \in {"ok", "fail"} : PairOpenDone(k, o)
  \/ \E k \in 1..(5 + 3 * MaxPairReq), o \in {"ok", "fail"} : PairCloseDone(k, o)
  \/ \E l \in Loggers, id \in ReporterIds, st \in BOOLEAN : PairPut(l, id, st)
  \/ \E l \in Loggers, body \in Bodies : PairSetOptions(l, body)
  \/ \E l \in Loggers : PairUnregister(l)

SpecPair == InitPair /\ [][NextPair]_vars

\* A Logger the Plugin has constructed, with or without the memory option.
InitOpen == Constructed /\ memory \in BOOLEAN /\ unit = NoUnit

\* Plugin.open on that Logger, the opens it started, and requests arriving
\* meanwhile and afterwards.
SpecOpen ==
  InitOpen /\ [][\/ PluginOpen
                 \/ \E k \in Ops, o \in {"ok", "fail"} : OpenDone(k, o)
                 \/ Serving(1..MaxLiveReq, Sends, {"none"}, JsonHost)]_vars

\* Every action of the model.
Next ==
  \/ NextRegistry
  \/ NextLifecycle
  \/ NextManage
  \/ \E id \in ReporterIds : GetOptions(id)
  \/ \E id \in ReporterIds, body \in Bodies : PutOptions(id, body)
  \/ \E n \in 1..MaxOptReq : OptionsRead(n)
  \/ \E n \in 1..MaxOptReq : OptionsAnswer(n)
  \/ PluginOpen
  \/ Serving(Reqs, Sends, Sends, HostAnswers)
  \/ NextRecord
  \/ NextName
  \/ FacadeJson
  \/ NextStore
  \/ NextPlugin
  \/ NextPair

\* The whole system from construction: registry calls interleaved with
\* requests.  Its state space at the bounds above is tens of millions of
\* states, so the properties are established under the specifications
\* above, each of which starts the part of the system it concerns from a
\* state the program reaches and lets only that part run.
Spec == Init /\ [][Next]_vars

\* ------------------------------------------------------------------ claims

\* The handler of request r ran to an outcome the claims speak of: it threw,
\* or it returned having sent its response.
HandlerFinished(r) ==
  \/ reqs[r].hResult = "throw"
  \/ reqs[r].hResult = "ret" /\ reqs[r].statusCode # 0

\* C1: for every invocation of a wrapped handler, whether the handler returns
\* or throws and whether or not the host has an onError hook, exactly one
\* begin fan-out and exactly one finish fan-out are performed.
C1_OneBeginOneFinish ==
  \A r \in Reqs :
    (reqs[r].pc = "done" /\ HandlerFinished(r)) =>
      (reqs[r].nBegin = 1 /\ reqs[r].nFinish = 1)

\* C2: the wrapped handler settles as the handler did: it returns when the
\* handler returned and throws the handler's error when the handler threw,
\* whatever the reporters do.
C2_SameOutcome ==
  \A r \in Reqs :
    (HandlerFinished(r) /\ reqs[r].wResult # "none") =>
      /\ reqs[r].hResult = "ret" => reqs[r].wResult = "ret"
      /\ reqs[r].hResult = "throw" => reqs[r].wResult = "throwH"

\* C3: when the wrapped handler has returned the handler's result
\* or re-raised the handler's error, the finish fan-out has been started and
\* none of its callbacks is still running.
C3_FinishBeforeSettle ==
  \A r \in Reqs :
    reqs[r].wResult \in {"ret", "throwH"} =>
      (reqs[r].nFinish = 1 /\ Pending(r, "finish") = {})

\* C4: the handler is invoked only after every callback of the begin fan-out
\* has completed, and exactly once per wrapped invocation.
C4_HandlerOnceAfterBegin ==
  \A r \in Reqs :
    /\ reqs[r].hCalls > 0 => Pending(r, "begin") = {}
    /\ reqs[r].wResult # "none" => reqs[r].hCalls = 1

\* C5: when one reporter's callback fails, the callbacks of the other
\* reporters run to completion before the fan-out is considered finished: no
\* callback of a fan-out is still running once its request has moved on.
C5_SiblingsComplete ==
  \A r \in Reqs :
    /\ ~Awaits(r, "begin") => Pending(r, "begin") = {}
    /\ ~Awaits(r, "finish") => Pending(r, "finish") = {}

\* C6: a failure inside a reporter callback is never thrown into the request
\* path: the wrapped handler never settles with a reporter's error.
C6_ReporterErrorNotThrown ==
  \A r \in Reqs : reqs[r].wResult # "throwRep"

\* C7: every failure of an enabled reporter is emitted as 'error' on the
\* owning Logger and re-emitted on the Plugin, for the node logger and for
\* the wallet logger.
C7_ErrorsSurfaced ==
  /\ failed \subseteq loggerErrors
  /\ loggerErrors \subseteq pluginErrors

\* C8: the enabled set is the result of applying the successful enable and
\* disable calls in the order in which they complete (expected), a disabled
\* reporter can be enabled again (it is still registered, which is all
\* enableReporter asserts), and the status map GET /bweb-log returns maps
\* every registered id to that state.
C8_EnabledMatchesCalls ==
  /\ {id \in ReporterIds : isEnabled(id)} = expected
  /\ \A k \in Ops :
       (ops[k].kind = "disable" /\ ops[k].pc = "done") => hasReporter(ops[k].id)
  /\ listReportersStatuses = [id \in availableReporters |-> id \in expected]

\* C8 witness: a reporter was enabled, disabled by a later call and enabled
\* again by a third.
C8_Witness ==
  \E j, k \in Ops :
    /\ j < k
    /\ ops[j].kind = "disable" /\ ops[j].pc = "done"
    /\ ops[k].kind = "enable" /\ ops[k].pc = "done"
    /\ ops[j].id = ops[k].id
    /\ isEnabled(ops[k].id)

\* C9: enableReporter(id) called while id is enabled fails and changes
\* nothing: no instance is constructed and the enabled set is unchanged.
C9_DoubleEnableFails ==
  [][\A k \in Ops :
       (ops[k].kind = "none" /\ ops'[k].kind = "enable" /\ isEnabled(ops'[k].id)) =>
         /\ ops'[k].pc = "threw"
         /\ instances' = instances
         /\ enabledReporters' = enabledReporters]_vars

\* C10: every instance that has been opened and not closed is the instance
\* stored in the enabled set for its id, so at most one exists per id.
C10_OneOpenInstance ==
  \A i \in Ops :
    instances[i].state \in {"open", "closing"} =>
      enabledReporters[instances[i].id] = i

\* C11: a register call for an id that is already registered fails and
\* changes nothing (available set, stored descriptor and options, enabled
\* set, no instance constructed); any other register call adds exactly its
\* id to the available set and stores its own descriptor for it.
C11_RegisterOnce ==
  [][\A k \in Ops :
       (ops[k].kind = "none" /\ ops'[k].kind = "register") =>
         IF ops'[k].id \in availableReporters
         THEN /\ ops'[k].pc = "threw"
              /\ availableReporters' = availableReporters
              /\ descriptors' = descriptors
              /\ enabledReporters' = enabledReporters
              /\ instances' = instances
         ELSE /\ availableReporters' = availableReporters \cup {ops'[k].id}
              /\ descriptors' = [descriptors EXCEPT ![ops'[k].id] = k]
              /\ enabledReporters' = enabledReporters]_vars

\* C11 witness: a second register of an id has failed at its assertion and
\* the id still carries the descriptor the first register stored.
C11_Witness ==
  \E j, k \in Ops :
    /\ j < k
    /\ ops[j].kind = "register" /\ ops[k].kind = "register"
    /\ ops[j].id = ops[k].id
    /\ ops[k].pc = "threw" /\ ops[k].inst = NoInst
    /\ hasReporter(ops[k].id)
    /\ descriptors[ops[k].id] = j

\* C12: enableReporter(id) for an id that is not registered fails, and
\* disableReporter(id) for an id that is not enabled fails; neither changes
\* the available set or the enabled set, and no instance is constructed,
\* opened or closed.
C12_MisuseFails ==
  [][\A k \in Ops :
       (/\ ops[k].kind = "none"
        /\ \/ ops'[k].kind = "enable" /\ ops'[k].id \notin availableReporters
           \/ ops'[k].kind = "disable" /\ enabledReporters[ops'[k].id] = NoInst) =>
         /\ ops'[k].pc = "threw"
         /\ availableReporters' = availableReporters
         /\ enabledReporters' = enabledReporters
         /\ instances' = instances]_vars

\* C12 witness: an enableReporter of an unregistered id and a
\* disableReporter of a registered, not enabled id have both failed.
C12_Witness ==
  \E j, k \in Ops :
    /\ ops[j].kind = "enable" /\ ops[j].pc = "threw" /\ ops[j].inst = NoInst
    /\ ~hasReporter(ops[j].id)
    /\ ops[k].kind = "disable" /\ ops[k].pc = "threw"
    /\ hasReporter(ops[k].id) /\ ~isEnabled(ops[k].id)

\* C13: when open() fails during an enable, the enable fails, the instance
\* is not stored in the enabled set, its id stays registered (so a later
\* enableReporter passes its assertion), and no fan-out callback ever runs
\* on the failed instance.
C13_FailedOpenNotEnabled ==
  \A i \in Ops :
    instances[i].state = "failed" =>
      /\ ops[i].pc = "threw"
      /\ i \notin EnabledInstances
      /\ EnableAsserts(instances[i].id, availableReporters)
      /\ \A c \in running : c[2] # i

\* C13 witness: the file reporter's open() has failed, the id is registered
\* and not enabled, and a request has been through both of its fan-outs.
C13_Witness ==
  \E i \in Ops, r \in Reqs :
    /\ instances[i].state = "failed" /\ instances[i].id = "file"
    /\ hasReporter("file") /\ ~isEnabled("file")
    /\ reqs[r].nBegin = 1 /\ reqs[r].nFinish = 1 /\ reqs[r].pc = "done"

\* C14: a reporter instance receives logRequest / logRequestFinished only
\* after its open() has completed: every instance a fan-out iterates, and
\* every instance a callback is running on, has been opened, also while an
\* enable of the same id is in progress.
C14_DispatchOnlyOpened ==
  /\ \A i \in EnabledInstances : instances[i].state \in {"open", "closing"}
  /\ \A c \in running : instances[c[2]].state \in {"open", "closing", "closed"}

\* C14 witness: a request is through its begin fan-out while the file
\* reporter is constructed and its open() has not completed.
C14_Witness ==
  \E i \in Ops, r \in Reqs :
    /\ instances[i].id = "file" /\ instances[i].state = "opening"
    /\ reqs[r].nBegin = 1 /\ reqs[r].pc = "handler"

\* C15: disableReporter takes the instance out of the enabled set before it
\* calls close(), so no fan-out dispatches a callback to an instance whose
\* close() has begun.
C15_NoDispatchAfterClose ==
  [][\A c \in running' \ running : instances[c[2]].state = "open"]_vars

\* C16: disableReporter does not call close() on an instance while a
\* callback of that instance, started by a fan-out in flight, is running.
C16_NoCloseWhileRunning ==
  [][\A i \in Ops :
       (instances[i].state = "open" /\ instances'[i].state = "closing") =>
         \A c \in running : c[2] # i]_vars

\* C17: the open stores are exactly the stores of the instances in the
\* enabled set (a disabled file or name reporter has had its store closed,
\* and nothing else holds a store open).
C17_OpenStoresAreEnabled ==
  OpenStores = {i \in EnabledInstances : instances[i].id \in StoreBacked}

\* The metadata of request r as a finish fan-out passes it to the reporters.
FinishMeta(r) == reqs[r]

\* C18: when the handler throws an error carrying status 404 the
\* finish fan-out observes statusCode 404, a populated error and an unset
\* response; and at every finish fan-out the metadata has exactly one of
\* {response captured with error null, error populated with response unset}.
C18_ExactlyOne ==
  \A r \in Reqs :
    reqs[r].nFinish >= 1 =>
      LET m == FinishMeta(r) IN
      /\ reqs[r].hResult = "throw" =>
           (m.statusCode = 404 /\ m.errored # "null" /\ m.response = "null")
      /\ (m.response # "null" /\ m.errored = "null")
           # (m.errored # "null" /\ m.response = "null")

\* C19: at every finish fan-out, on the normal path and on the error path,
\* the metadata has end >= start, so diff = end - start is not negative.
C19_ElapsedNonNegative ==
  \A r \in Reqs :
    reqs[r].nFinish >= 1 =>
      (FinishMeta(r).end >= FinishMeta(r).start /\ diff(FinishMeta(r)) >= 0)

\* C19 witness: one request has had its finish fan-out on the normal path
\* and another on the error path.
C19_Witness ==
  \E r, q \in Reqs :
    /\ reqs[r].nFinish = 1 /\ reqs[r].hResult = "ret"
    /\ reqs[q].nFinish = 1 /\ reqs[q].hResult = "throw"

\* A PUT /bweb-log request is answered in this step.
PutAnswered(k) == responses[k].code = 0 /\ responses'[k].code # 0

\* C20: a PUT /bweb-log naming an unregistered id is answered 400
\* and changes neither the available nor the enabled set; one naming a
\* registered id is answered 200 with the status map as it is after the
\* enable / disable took effect.
C20_PutAnswers ==
  [][\A k \in Ops :
       PutAnswered(k) =>
         IF ops'[k].id \notin availableReporters
         THEN /\ responses'[k].code = 400
              /\ availableReporters' = availableReporters
              /\ enabledReporters' = enabledReporters
         ELSE /\ responses'[k].code = 200
              /\ responses'[k].reporters =
                   [id \in availableReporters' |-> enabledReporters'[id] # NoInst]
              /\ responses'[k].reporters[ops'[k].id] = responses'[k].enabled]_vars

\* C21: a GET or PUT /bweb-log/:id request for an id that is not registered,
\* or registered but not enabled, is answered with a 400 error, and it
\* changes no reporter's options and nothing in the registry.
C21_OptionsNeedEnabled ==
  [][\A n \in 1..MaxOptReq :
       (/\ answer[n].verb = "none" /\ answer'[n].verb # "none"
        /\ ~(hasReporter(answer'[n].id) /\ isEnabled(answer'[n].id)))
       => /\ answer'[n].code = 400
          /\ answer'[n].threw
          /\ UNCHANGED <<options, regVars>>]_vars

\* A PUT /bweb-log/file with valid fields was refused with 400 because the
\* file reporter, though registered, is not enabled.
C21_Witness ==
  \E n \in 1..MaxOptReq :
    /\ answer[n].verb = "PUT"
    /\ answer[n].id = "file"
    /\ answer[n].body.params = "false"
    /\ hasReporter("file") /\ ~isEnabled("file")
    /\ answer[n].code = 400

\* C22: setOptions on the file reporter is all-or-nothing: a request with a
\* field of the wrong type, or with a field the reporter does not know, is
\* rejected and leaves logParams and logResponse as they were; a request
\* that succeeds is answered with the new values (each field it carries has
\* the value it carries).
C22_AllOrNothing ==
  [][\A n \in 1..MaxOptReq :
       LET b == answer'[n].body IN
       /\ (/\ answer[n].verb = "none" /\ answer'[n].verb = "PUT"
           /\ answer'[n].id = "file" /\ isEnabled("file"))
          => IF boolThrows(b.params) \/ boolThrows(b.response) \/ b.extra
             THEN answer'[n].threw /\ options' = options
             ELSE ~answer'[n].threw
       /\ (/\ answer[n].pc = "read" /\ answer'[n].pc = "done"
           /\ answer'[n].verb = "PUT" /\ answer'[n].id = "file")
          => /\ b.params # "absent" =>
                  <<"params", b.params = "true">> \in answer'[n].options
             /\ b.response # "absent" =>
                  <<"response", b.response = "true">> \in answer'[n].options]_vars

\* The records the file reporter has written for the request considered.
Written == {unit.written[n] : n \in 1..Len(unit.written)}

\* C23: in every record the file reporter writes with parameter logging on,
\* each key of the request's params, query and body is present; a key named
\* token or passphrase carries the marker '*****' and every other key its
\* original value.
C23_MaskedNotOmitted ==
  unit.fn = "file" /\ unit.options.logParams =>
    \A rec \in Written : \A slot \in {"params", "query", "body"} :
      /\ \A e \in unit.req[slot] :
           <<e[1], IF e[1] \in SensitiveKeys THEN Str(Marker) ELSE e[2]>>
             \in rec[slot].entries
      /\ \A f \in rec[slot].entries : \E e \in unit.req[slot] : e[1] = f[1]

\* Both records of a request with a token in its query and a passphrase and
\* another key in its body have been written with parameter logging on.
C23_Witness ==
  /\ unit.fn = "file"
  /\ unit.options.logParams
  /\ Len(unit.written) = 2
  /\ <<"token", Str(SecretOf("token"))>> \in unit.req.query
  /\ <<"passphrase", Str(SecretOf("passphrase"))>> \in unit.req.body
  /\ <<"name", Str("w")>> \in unit.req.body

\* The token and passphrase values an object carries, at any depth.
Supplied(obj) ==
  {e[2].s : e \in {x \in obj : x[1] \in SensitiveKeys}}
    \cup UNION {{n[2] : n \in {y \in e[2].o : y[1] \in SensitiveKeys}} :
                 e \in {x \in obj : x[2].t = "obj"}}

\* Every string a filtered object carries, at any depth.
Leaves(filtered) ==
  UNION {IF e[2].t = "str" THEN {e[2].s} ELSE {n[2] : n \in e[2].o} :
           e \in filtered.entries}

\* C24: no record the file reporter writes contains the value of a token or
\* passphrase field of the request's query or body, whatever the reporter's
\* options and however deep the field is nested.
C24_NoSecretVerbatim ==
  unit.fn = "file" =>
    \A rec \in Written :
      \A v \in Supplied(unit.req.query) \cup Supplied(unit.req.body) :
        v \notin Leaves(rec.params) \cup Leaves(rec.query) \cup Leaves(rec.body)

\* The fields of FinishedMetaData, as request record rq holds them.
MetaOf(rq) ==
  [start |-> rq.start, end |-> rq.end, errored |-> rq.errored,
   statusCode |-> rq.statusCode, response |-> rq.response]

\* The records of request r in the store of the enabled file reporter.
RecordsOf(r) ==
  {c[3] : c \in {x \in records : x[1] = r /\ x[2] = enabledReporters["file"]}}

\* C25: with the file reporter enabled and no store write failing, every
\* request that is over (its handler threw, or returned having sent its
\* response) has exactly two records in the reporter's store, a begin
\* record and a finish record, and a finish record is never there without
\* the begin record.
C25_TwoRecords ==
  isEnabled("file") /\ failed = {} =>
    \A r \in Reqs :
      /\ reqs[r].pc = "done" /\ HandlerFinished(r)
           => RecordsOf(r) = {"begin", "finish"}
      /\ "finish" \in RecordsOf(r) => "begin" \in RecordsOf(r)

\* The requests whose logRequestFinished was invoked on instance i, in the
\* order of the invocations.
FinishedOn(i) == SelectSeq(finishLog, LAMBDA e : i \in e.on)

\* C26: on every reporter instance, logRequestFinished is invoked in the
\* order of the requests' end timestamps: a request whose meta.end is
\* smaller is invoked earlier.
C26_FinishInEndOrder ==
  \A i \in Ops :
    \A a, b \in 1..Len(FinishedOn(i)) :
      reqs[FinishedOn(i)[a].req].end < reqs[FinishedOn(i)[b].req].end => a < b

\* Request 2 overtook request 1: logRequestFinished was invoked on the file
\* reporter for request 2, then for request 1.
C26_Witness ==
  /\ isEnabled("file")
  /\ Len(FinishedOn(enabledReporters["file"])) = 2
  /\ FinishedOn(enabledReporters["file"])[1].req = 2
  /\ FinishedOn(enabledReporters["file"])[2].req = 1

\* C27: for a matching name request whose name or broadcast is absent or of
\* the wrong type, logRequest and logRequestFinished write no record and do
\* not reject.
C27_FailsSoft ==
  (unit.fn = "name" /\ unit.req.type # "auction"
     /\ (unit.req.name # "typed" \/ unit.req.broadcast = "mistyped"))
    => \A n \in 1..Len(unit.out) : unit.out[n].did = "nothing"

\* C28: the body the facade has captured (wres.sentObject, which becomes
\* meta.response) is the payload sent on the real response: the first
\* json(code, body) reaches the real response unchanged, and a later send,
\* which the real response does not accept, leaves the captured body alone.
C28_CapturedIsSent ==
  (unit.fn = "facade" /\ unit.wres.sent)
    => /\ unit.wres.code = unit.calls[1][1]
       /\ unit.wres.body = unit.calls[1][2]
       /\ unit.wres.sentObject = unit.wres.body

C30_MemoryOpensNothing ==
  (memory /\ nOps > 0) =>
    /\ \A id \in ReporterIds : ~isEnabled(id)
    /\ \A i \in Ops : instances[i] = NoInstance
    /\ OpenStores = {}
    /\ running = {} /\ records = {}

\* The wallet logger of a memory node after Plugin.open: three reporters
\* registered, and a request served to its end.
C30_Witness ==
  /\ memory
  /\ kind = "wallet"
  /\ availableReporters = ReporterIds
  /\ reqs[1].pc = "done"
  /\ reqs[1].wResult = "ret"

\* C31: when no rotation is under way the store holds at most maxFiles
\* historical files, slot 1 is the file rotated last and the slots are
\* ordered from the latest to the earliest rotation; a rotation that
\* deletes files deletes the highest-numbered slots and keeps the others in
\* place.
C31_HistoryBounded ==
  /\ [](unit.fn = "store" =>
        /\ unit.phase # "shifted" => Len(unit.history) <= unit.maxFiles
        /\ unit.history # <<>> => unit.history[1].gen = unit.gen - 1
        /\ \A i, j \in 1..Len(unit.history) :
             i < j => unit.history[i].gen > unit.history[j].gen)
  /\ [][unit.fn = "store" /\ Len(unit'.history) < Len(unit.history) =>
         unit'.history = SubSeq(unit.history, 1, Len(unit'.history))]_vars

\* A store keeping two historical files has rotated a third time and
\* deleted the oldest file.
C31_Witness ==
  /\ unit.fn = "store"
  /\ unit.maxFiles = 2
  /\ unit.phase = "idle"
  /\ unit.deleted > 0
  /\ Len(unit.history) = 2

\* C32: the writer rotates exactly when the record at hand would take the
\* non-empty current file beyond maxFileSize; one write causes at most one
\* rotation, no historical file is empty, and once a write is done the
\* current file is within maxFileSize unless it holds a single record.
C32_RotatesAtBoundary ==
  /\ [](unit.fn = "store" =>
        /\ unit.currentFileSize = SizeOf(unit.current)
        /\ unit.phase = "idle" =>
             \/ unit.currentFileSize <= unit.maxFileSize
             \/ Len(unit.current) = 1
        /\ \A i \in 1..Len(unit.history) : unit.history[i].lines # <<>>
        /\ unit.rotations <= unit.issued - Len(unit.queue)
                               + (IF unit.phase = "idle" THEN 0 ELSE 1))
  /\ [][unit.fn = "store" =>
         /\ unit'.rotations # unit.rotations =>
              /\ unit'.rotations = unit.rotations + 1
              /\ unit.phase = "idle"
              /\ unit.current # <<>>
              /\ unit.currentFileSize + Head(unit.queue).size > unit.maxFileSize
         /\ unit.phase = "idle" /\ Len(unit'.queue) < Len(unit.queue) =>
              \/ unit.current = <<>>
              \/ unit.currentFileSize + Head(unit.queue).size <= unit.maxFileSize]_vars

\* A record larger than maxFileSize met a non-empty file: the store rotated
\* once and the record is alone in the fresh current file.
C32_Witness ==
  /\ unit.fn = "store"
  /\ unit.phase = "idle"
  /\ unit.rotations = 1
  /\ Len(unit.current) = 1
  /\ unit.currentFileSize > unit.maxFileSize
  /\ unit.queue = <<>>

\* The lines of the historical files, from the oldest file to slot 1.
RECURSIVE HistoryLines(_)
HistoryLines(history) ==
  IF history = <<>> THEN <<>>
  ELSE HistoryLines(Tail(history)) \o Head(history).lines

\* C33: the lines of the store, read from the oldest file to the current
\* one and followed by the records still waiting, are the writeJSONLine
\* calls in the order they were issued, each once and none missing up to
\* the last call; only the deletion of a historical file removes lines,
\* and it removes the earliest.
C33_WritesSerialized ==
  unit.fn = "store" =>
    LET StoreLines == HistoryLines(unit.history) \o unit.current \o unit.queue IN
    /\ \A i \in 1..(Len(StoreLines) - 1) :
         StoreLines[i + 1].id = StoreLines[i].id + 1
    /\ unit.issued > 0 =>
         StoreLines # <<>> /\ StoreLines[Len(StoreLines)].id = unit.issued
    /\ unit.deleted = 0 /\ StoreLines # <<>> => StoreLines[1].id <= 1

\* A record was handed to the store during a rotation, and every record
\* has since been written.
C33_Witness ==
  /\ unit.fn = "store"
  /\ unit.late > 0
  /\ unit.issued >= 3
  /\ unit.phase = "idle"
  /\ unit.queue = <<>>

\* C34: the name reporter writes a record only for a POST request whose
\* path has three segments, the first 'wallet' and the third a name
\* operation; a begin record never carries a txHash, and a finish record
\* carries the hash of the response body when there is one.
C34_OnlyNameRequests ==
  unit.fn = "name" =>
    \A n \in 1..Len(unit.out) :
      /\ unit.out[n].did = "written" =>
           /\ unit.req.method = "POST"
           /\ unit.req.segments = 3
           /\ unit.req.first = "wallet"
           /\ unit.req.type \in NameTypes
      /\ unit.out[n].txHash # "null" =>
           n = 2 /\ unit.out[n].did = "written" /\ unit.req.hash = "typed"
      /\ n = 2 /\ unit.out[n].did = "written" /\ unit.req.hash = "typed" =>
           unit.out[n].txHash = "hash"

\* A POST /wallet/:id/open whose response carried a hash: the begin record
\* was written without it and the finish record with it.
C34_Witness ==
  /\ unit.fn = "name"
  /\ unit.req.type = "open"
  /\ Len(unit.out) = 2
  /\ unit.out[1].did = "written" /\ unit.out[1].txHash = "null"
  /\ unit.out[2].did = "written" /\ unit.out[2].txHash = "hash"

\* C35: a fan-out starts callbacks on exactly the instances that are in the
\* enabled set when it starts, for its own request and phase, and nothing
\* else starts a callback: an instance that enters the set after a
\* request's begin fan-out gets no begin callback of it, and one that has
\* left the set before its finish fan-out gets no finish callback.  (Of the
\* instances in the set, those are counted whose callback for the request
\* is left running by the dispatch loop.)
C35_DispatchToEnabledAtStart ==
  [][\A r \in Reqs :
       LET began == reqs'[r].nBegin # reqs[r].nBegin
           finished == reqs'[r].nFinish # reqs[r].nFinish
           started == {c \in running' \ running : c[1] = r}
           inEnabledSet ==
             {i \in Ops : /\ instances[i].id # "none"
                          /\ enabledReporters[instances[i].id] = i
                          /\ Writes(instances[i].id, reqs'[r].name)}
       IN
       IF began \/ finished
       THEN /\ {c[2] : c \in started} = inEnabledSet
            /\ \A c \in started : c[3] = IF began THEN "begin" ELSE "finish"
       ELSE started = {}]_vars

\* The file reporter was disabled between a request's begin fan-out and its
\* finish fan-out: the finish fan-out ran without the instance, which holds
\* the begin record only.
C35_Witness ==
  \E i \in Ops :
    /\ instances[i].id = "file" /\ instances[i].state = "closed"
    /\ reqs[1].pc = "done" /\ reqs[1].nFinish = 1
    /\ failed = {}
    /\ Len(finishLog) = 1 /\ i \notin finishLog[1].on
    /\ <<1, i, "begin">> \in records /\ <<1, i, "finish">> \notin records

\* C36: every reporter in the enabled set is in the available set.
C36_EnabledAreAvailable ==
  \A id \in ReporterIds : isEnabled(id) => hasReporter(id)

\* unregister was called for a reporter whose enableReporter was suspended
\* at open(); the unregister has ended and the reporter is now enabled.
C36_Witness ==
  \E k, u \in Ops :
    /\ k < u
    /\ ops[k].kind \in {"enable", "register"} /\ ops[k].pc = "done"
    /\ ops[u].kind = "unregister" /\ ops[u].id = ops[k].id
    /\ ops[u].inst = NoInst /\ ops[u].pc \in {"done", "threw"}
    /\ enabledReporters[ops[k].id] = k

\* C37: an unregister of a registered reporter, unless the close() of its
\* instance failed, ends without error with the id in neither the enabled
\* nor the available set.
C37_UnregisterRemoves ==
  [][\A k \in Ops :
       (/\ ops'[k].kind = "unregister"
        /\ ops[k].pc \notin {"done", "threw"}
        /\ ops'[k].pc \in {"done", "threw"}
        /\ ops'[k].id \in availableReporters
        /\ enabledReporters'[ops'[k].id] = NoInst)
       => /\ ops'[k].pc = "done"
          /\ ops'[k].id \notin availableReporters']_vars

\* C38: Plugin.open does not throw on any host and with any setting of
\* weblog-node and weblog-wallet, unless a store fails to open, and once it
\* has returned each logger it created has an 'error' listener that
\* re-emits on the plugin.
C38_OpenCompletes ==
  unit.fn = "plugin" =>
    /\ unit.pc = "threw" => unit.error = "store"
    /\ unit.pc = "opened" =>
         /\ unit.nodeLogger => unit.nodeListeners > 0
         /\ unit.walletLogger => unit.walletListeners > 0

\* C39: a PUT /bweb-log for a registered reporter that asks for the state
\* the reporter is in is answered 200 at once and opens, closes and replaces
\* nothing; one whose body has no boolean `enabled` starts no enable and no
\* disable.
C39_PutIdempotent ==
  [][\A k \in Ops :
       (ops[k].kind = "none" /\ ops'[k].kind = "put" /\ hasReporter(ops'[k].id)) =>
         LET field == responses'[k].field
             id == ops'[k].id
         IN
         /\ ((field = "true" /\ isEnabled(id)) \/ (field = "false" /\ ~isEnabled(id))) =>
              /\ responses'[k].code = 200
              /\ ops'[k].pc = "done"
              /\ UNCHANGED <<instances, enabledReporters, availableReporters>>
         /\ field \in {"absent", "junk"} =>
              /\ ops'[k].inst = NoInst
              /\ UNCHANGED <<instances, enabledReporters>>]_vars

\* What a logger sees through its references: its available set, its
\* enabled map and the options of the instances in it.
ViewOf(u, l) ==
  LET e == u.loggers[l].enabledReporters IN
  [available |-> u.available[u.loggers[l].availableReporters],
   enabled |-> u.enabled[e],
   options |-> [id \in {x \in ReporterIds : u.enabled[e][x] # NoInst} |->
                  u.calls[u.enabled[e][id]].options]]

\* C40: a registration, a management request or any continuation of one on
\* one logger leaves what the other logger sees (available set, enabled
\* map, reporter options) unchanged, and the name reporter is never
\* available on the node logger.
C40_LoggersIndependent ==
  /\ [](unit.fn = "pair" => "name" \notin ViewOf(unit, "node").available)
  /\ [][unit.fn = "pair" =>
         \A l \in Loggers :
           unit'.last # l => ViewOf(unit', l) = ViewOf(unit, l)]_vars

\* Plugin.open has returned with the reporters of both loggers enabled; the
\* wallet logger's file reporter was then given other options, and the node
\* logger's file reporter still has its own.
C40_Witness ==
  /\ unit.fn = "pair"
  /\ unit.pc = "opened"
  /\ \A id \in {"console", "file"} : ViewOf(unit, "node").enabled[id] # NoInst
  /\ \A id \in ReporterIds : ViewOf(unit, "wallet").enabled[id] # NoInst
  /\ ViewOf(unit, "wallet").options["file"] = [logParams |-> FALSE, logResponse |-> TRUE]
  /\ ViewOf(unit, "node").options["file"] = DefaultOptions

====
